---- MODULE Spec2Model ----
(***************************************************************************)
(* Model of the direct WebRTC connection module (webrtc-direct): the       *)
(* signaling codec compressSignaling / decompressSignaling and the         *)
(* connection manager returned by createDirectConnection.                  *)
(*                                                                         *)
(* Text is modelled as a sequence of one-character strings, so that        *)
(* trimming, hex parsing, base64 and the ':' join/split are computed as    *)
(* the code computes them.                                                 *)
(***************************************************************************)
EXTENDS Integers, Sequences, FiniteSets, TLC

\* ------------------------------------------------------------------------
\* Bounds of the model
\* ------------------------------------------------------------------------
\* number of bytes of a fingerprint (32 in a real SHA-256 fingerprint)
FpLen == 2
\* longest candidate list handed to compressSignaling
MaxPaths == 6
\* entries of a candidate list that has entries compressSignaling skips
MaxEntries == 7
\* createOffer / createAnswer / acceptAnswer calls made on one controller
MaxCalls == 3
\* local candidates the engine reports to one controller
MaxCands == 3
\* channels the engine creates or announces to one controller
MaxChannels == 2
\* API calls made on, plus engine callbacks delivered to, one controller
MaxInputs == 4
\* longest text sent as a message
MaxMsgLen == 3
\* tokens given to onLLMToken, and the last reading of Date.now()
MaxTokens == 2
MaxClock == 3
\* video frames offered to the scanner
MaxFrames == 5
\* saveDocument calls on the one document
MaxSaves == 12
\* appendText / setText calls on each of two sync managers
MaxEdits == 2
\* rooms a relay connection manager joins
MaxRooms == 3
\* calls of scanner.start
MaxStarts == 2

\* ------------------------------------------------------------------------
\* Program constants
\* ------------------------------------------------------------------------
\* .slice(0, 5): candidates kept in a token
CandidateCap == 5
\* localCandidates.length >= 3: enough candidates to stop waiting
EnoughCandidates == 3

\* ------------------------------------------------------------------------
\* Text helpers (String.prototype.trim, parseInt(h, 16), toString(16), btoa,
\* atob)
\* ------------------------------------------------------------------------
Min(a, b) == IF a < b THEN a ELSE b

SubSeqFrom(s, i) == SubSeq(s, i, Len(s))

IsSpace(ch) == ch \in {" ", "\r", "\n", "\t"}

RECURSIVE TrimLeft(_)
TrimLeft(s) ==
  IF s = <<>> THEN <<>>
  ELSE IF IsSpace(Head(s)) THEN TrimLeft(Tail(s)) ELSE s

RECURSIVE TrimRight(_)
TrimRight(s) ==
  IF s = <<>> THEN <<>>
  ELSE IF IsSpace(s[Len(s)]) THEN TrimRight(SubSeq(s, 1, Len(s) - 1)) ELSE s

Trim(s) == TrimRight(TrimLeft(s))

HexUpper == <<"0","1","2","3","4","5","6","7","8","9","A","B","C","D","E","F">>
HexLower == <<"0","1","2","3","4","5","6","7","8","9","a","b","c","d","e","f">>

HexDigitVal(ch) == (CHOOSE i \in 1..16 : HexUpper[i] = ch \/ HexLower[i] = ch) - 1

\* parseInt(h, 16) on a string of hex digits
RECURSIVE ParseHex(_)
ParseHex(h) ==
  IF h = <<>> THEN 0
  ELSE ParseHex(SubSeq(h, 1, Len(h) - 1)) * 16 + HexDigitVal(h[Len(h)])

\* b.toString(16).padStart(2, '0').toUpperCase() for a byte
ByteToHexUpper(b) == <<HexUpper[(b \div 16) + 1], HexUpper[(b % 16) + 1]>>

\* s.split(sep) for a one-character separator
RECURSIVE Split(_, _)
Split(s, sep) ==
  IF \A i \in 1..Len(s) : s[i] # sep THEN <<s>>
  ELSE LET k == CHOOSE i \in 1..Len(s) : s[i] = sep /\ \A j \in 1..(i - 1) : s[j] # sep
       IN  <<SubSeq(s, 1, k - 1)>> \o Split(SubSeqFrom(s, k + 1), sep)

\* parts.join(sep)
RECURSIVE Join(_, _)
Join(parts, sep) ==
  IF parts = <<>> THEN <<>>
  ELSE IF Len(parts) = 1 THEN parts[1]
  ELSE parts[1] \o <<sep>> \o Join(Tail(parts), sep)

B64Alphabet ==
  <<"A","B","C","D","E","F","G","H","I","J","K","L","M","N","O","P",
    "Q","R","S","T","U","V","W","X","Y","Z","a","b","c","d","e","f",
    "g","h","i","j","k","l","m","n","o","p","q","r","s","t","u","v",
    "w","x","y","z","0","1","2","3","4","5","6","7","8","9","+","/">>

B64Char(v) == B64Alphabet[v + 1]

B64Val(ch) == (CHOOSE i \in 1..64 : B64Alphabet[i] = ch) - 1

\* btoa(String.fromCharCode(...bytes)) for bytes in 0..255
RECURSIVE Btoa(_)
Btoa(bytes) ==
  IF bytes = <<>> THEN <<>>
  ELSE IF Len(bytes) = 1 THEN
    LET n == bytes[1] * 65536
    IN  <<B64Char(n \div 262144), B64Char((n \div 4096) % 64), "=", "=">>
  ELSE IF Len(bytes) = 2 THEN
    LET n == bytes[1] * 65536 + bytes[2] * 256
    IN  <<B64Char(n \div 262144), B64Char((n \div 4096) % 64),
          B64Char((n \div 64) % 64), "=">>
  ELSE
    LET n == bytes[1] * 65536 + bytes[2] * 256 + bytes[3]
    IN  <<B64Char(n \div 262144), B64Char((n \div 4096) % 64),
          B64Char((n \div 64) % 64), B64Char(n % 64)>>
        \o Btoa(SubSeqFrom(bytes, 4))

\* atob(text).split('').map(c => c.charCodeAt(0)) for padded base64 text
RECURSIVE Atob(_)
Atob(text) ==
  IF Len(text) < 4 THEN <<>>
  ELSE
    LET q == SubSeq(text, 1, 4)
        v(i) == IF q[i] = "=" THEN 0 ELSE B64Val(q[i])
        n == v(1) * 262144 + v(2) * 4096 + v(3) * 64 + v(4)
        all == <<n \div 65536, (n \div 256) % 256, n % 256>>
        keep == IF q[3] = "=" THEN 1 ELSE IF q[4] = "=" THEN 2 ELSE 3
    IN  SubSeq(all, 1, keep) \o Atob(SubSeqFrom(text, 5))

\* ------------------------------------------------------------------------
\* Negotiation documents (SDP) and candidates, as the engine produces them
\* ------------------------------------------------------------------------
\* An SDP is a sequence of lines [key, text]: key is the literal prefix the
\* code's regular expressions look for, text the rest of the line (which '.'
\* matches up to the line terminator).
KeyUfrag == "a=ice-ufrag:"
KeyPwd == "a=ice-pwd:"
KeyFingerprint == "a=fingerprint:sha-256 "
KeySetup == "a=setup:"

W_host == <<"h","o","s","t">>
W_srflx == <<"s","r","f","l","x">>
W_relay == <<"r","e","l","a","y">>
W_actpass == <<"a","c","t","p","a","s","s">>
W_active == <<"a","c","t","i","v","e">>

\* the textual form of a digest: upper or lower case hex pairs joined by ':'
ByteToHexLower(b) == <<HexLower[(b \div 16) + 1], HexLower[(b % 16) + 1]>>

FingerprintText(digest, lower) ==
  Join([i \in 1..Len(digest) |->
          IF lower THEN ByteToHexLower(digest[i]) ELSE ByteToHexUpper(digest[i])],
       ":")

\* the digest a fingerprint text denotes
FingerprintDigest(text) ==
  LET parts == Split(text, ":") IN [i \in 1..Len(parts) |-> ParseHex(parts[i])]

\* A document is given by its meaning (role, credentials, digest) and by the
\* way the engine writes it down (style): a blank between a value and the
\* end of its line ('.' matches the blank but no line terminator), the
\* digest in upper or lower case, or a line missing.
DocStyles == {"plain", "padded", "lowerhex", "noUfrag", "noPwd", "noFingerprint"}

RenderSdp(doc) ==
  LET pad == IF doc.style = "padded" THEN <<" ">> ELSE <<>>
      lu == IF doc.style = "noUfrag" THEN <<>>
            ELSE <<[key |-> KeyUfrag, text |-> doc.ufrag \o pad]>>
      lp == IF doc.style = "noPwd" THEN <<>>
            ELSE <<[key |-> KeyPwd, text |-> doc.pwd \o pad]>>
      lf == IF doc.style = "noFingerprint" THEN <<>>
            ELSE <<[key |-> KeyFingerprint,
                    text |-> FingerprintText(doc.digest, doc.style = "lowerhex") \o pad]>>
  IN  [type |-> doc.type,
       sdp |-> <<[key |-> "v=0", text |-> <<>>]>> \o lu \o lp \o lf
               \o <<[key |-> "m=application", text |-> <<>>]>>]

\* sdp.match(/key(.+)/): the text of the first line with that key and at
\* least one character after it, or no match
HasMatch(sdp, key) == \E i \in 1..Len(sdp) : sdp[i].key = key /\ sdp[i].text # <<>>

MatchText(sdp, key) ==
  sdp[CHOOSE i \in 1..Len(sdp) :
        /\ sdp[i].key = key /\ sdp[i].text # <<>>
        /\ \A j \in 1..(i - 1) : ~(sdp[j].key = key /\ sdp[j].text # <<>>)].text

\* A candidate list entry: null, an object with an empty candidate string, a
\* candidate string the regular expression does not match (IPv6, mDNS), or
\* one with an IPv4 address, a port and a type word.
CandParses(c) == c.shape = "ipv4"

\* ------------------------------------------------------------------------
\* compressSignaling / decompressSignaling
\* ------------------------------------------------------------------------
\* CompressCandidate without the `>> 8` of the port's high byte
CompressCandidate_NoShift(c) ==
  LET bytes == c.ip \o <<c.port % 256, c.port % 256>>
  IN  Btoa(bytes) \o <<":">> \o <<c.typ[1]>>

\* one candidate: 4 address bytes + 2 port bytes, base64, ':' and typ[0]
CompressCandidate(c) ==
  LET bytes == c.ip \o <<(c.port \div 256) % 256, c.port % 256>>
  IN  Btoa(bytes) \o <<":">> \o <<c.typ[1]>>

\* CompressCandidates with the slice(0, 5) before the filters
CompressCandidates_SliceFirst(candidates) ==
  LET first == SubSeq(candidates, 1, Min(CandidateCap, Len(candidates)))
      truthy == SelectSeq(first, LAMBDA c : c.shape \notin {"null", "empty"})
      parsed == SelectSeq(truthy, CandParses)
  IN  [i \in 1..Len(parsed) |-> CompressCandidate(parsed[i])]

\* CompressCandidates without the slice(0, 5)
CompressCandidates_NoCap(candidates) ==
  LET truthy == SelectSeq(candidates, LAMBDA c : c.shape \notin {"null", "empty"})
      parsed == SelectSeq(truthy, CandParses)
  IN  [i \in 1..Len(parsed) |-> CompressCandidate(parsed[i])]

CompressCandidates(candidates) ==
  LET truthy == SelectSeq(candidates, LAMBDA c : c.shape \notin {"null", "empty"})
      parsed == SelectSeq(truthy, CandParses)
      kept == SubSeq(parsed, 1, Min(CandidateCap, Len(parsed)))
  IN  [i \in 1..Len(kept) |-> CompressCandidate(kept[i])]

NoToken == [wellFormed |-> FALSE, has |-> {}, t |-> "", u |-> <<>>, p |-> <<>>,
            f |-> <<>>, c |-> <<>>]

\* compressSignaling whose test leaves out `!fingerprintMatch`: reading
\* fingerprintMatch[1] of null raises a TypeError
compressSignaling_NoFingerprintTest(description, candidates) ==
  LET sdp == description.sdp IN
  IF ~HasMatch(sdp, KeyUfrag) \/ ~HasMatch(sdp, KeyPwd)
  THEN [ok |-> FALSE, error |-> "Could not extract required SDP fields", token |-> NoToken]
  ELSE IF ~HasMatch(sdp, KeyFingerprint)
  THEN [ok |-> FALSE, error |-> "TypeError", token |-> NoToken]
  ELSE
    LET fingerprint == Trim(MatchText(sdp, KeyFingerprint))
        hexes == Split(fingerprint, ":")
    IN  [ok |-> TRUE, error |-> "",
         token |-> [wellFormed |-> TRUE, has |-> {"t", "u", "p", "f", "c"},
                    t |-> IF description.type = "offer" THEN "o" ELSE "a",
                    u |-> Trim(MatchText(sdp, KeyUfrag)),
                    p |-> Trim(MatchText(sdp, KeyPwd)),
                    f |-> Btoa([i \in 1..Len(hexes) |-> ParseHex(hexes[i])]),
                    c |-> CompressCandidates(candidates)]]

compressSignaling(description, candidates) ==
  LET sdp == description.sdp IN
  IF ~HasMatch(sdp, KeyUfrag) \/ ~HasMatch(sdp, KeyPwd) \/ ~HasMatch(sdp, KeyFingerprint)
  THEN [ok |-> FALSE, error |-> "Could not extract required SDP fields", token |-> NoToken]
  ELSE
    LET iceUfrag == Trim(MatchText(sdp, KeyUfrag))
        icePwd == Trim(MatchText(sdp, KeyPwd))
        fingerprint == Trim(MatchText(sdp, KeyFingerprint))
        hexes == Split(fingerprint, ":")
        fingerprintBytes == [i \in 1..Len(hexes) |-> ParseHex(hexes[i])]
    IN  [ok |-> TRUE, error |-> "",
         token |-> [wellFormed |-> TRUE, has |-> {"t", "u", "p", "f", "c"},
                    t |-> IF description.type = "offer" THEN "o" ELSE "a",
                    u |-> iceUfrag,
                    p |-> icePwd,
                    f |-> Btoa(fingerprintBytes),
                    c |-> CompressCandidates(candidates)]]

TypOfChar(ch) ==
  IF ch = "h" THEN W_host
  ELSE IF ch = "s" THEN W_srflx
  ELSE IF ch = "r" THEN W_relay
  ELSE W_host

DecompressCandidate(c, index) ==
  LET parts == Split(c, ":")
      bytes == Atob(parts[1])
  IN  [index |-> index,
       priority |-> 2113937151 - index * 100,
       ip |-> SubSeq(bytes, 1, 4),
       port |-> bytes[5] * 256 + bytes[6],
       typ |-> TypOfChar(parts[2][1])]

NoDescription == [type |-> "", sdp |-> <<>>]

\* the text that string concatenation makes of a property an object lacks
Undefined == <<"u","n","d","e","f","i","n","e","d">>

\* A token is modelled by the record JSON.parse(atob(compressed)) yields:
\* wellFormed is FALSE when atob or JSON.parse throws, and has is the set of
\* properties the record owns.
decompressSignaling(compressed) ==
  IF ~compressed.wellFormed
  THEN [ok |-> FALSE, error |-> "SyntaxError", description |-> NoDescription,
        candidates |-> <<>>]
  ELSE IF "f" \notin compressed.has
  \* atob(undefined) is atob("undefined"): nine characters, not base64
  THEN [ok |-> FALSE, error |-> "InvalidCharacterError",
        description |-> NoDescription, candidates |-> <<>>]
  ELSE
    LET has == compressed.has
        data == [t |-> IF "t" \in has THEN compressed.t ELSE "undefined",
                 u |-> IF "u" \in has THEN compressed.u ELSE Undefined,
                 p |-> IF "p" \in has THEN compressed.p ELSE Undefined,
                 f |-> compressed.f,
                 c |-> IF "c" \in has THEN compressed.c ELSE <<>>]
        type == IF data.t = "o" THEN "offer" ELSE "answer"
        fingerprintBytes == Atob(data.f)
        fingerprint == Join([i \in 1..Len(fingerprintBytes) |->
                               ByteToHexUpper(fingerprintBytes[i])], ":")
    IN  [ok |-> TRUE, error |-> "",
         description |->
           [type |-> type,
            sdp |-> << [key |-> "v=0", text |-> <<>>],
                       [key |-> "m=application", text |-> <<>>],
                       [key |-> KeyUfrag, text |-> data.u],
                       [key |-> KeyPwd, text |-> data.p],
                       [key |-> KeyFingerprint, text |-> fingerprint],
                       [key |-> KeySetup,
                        text |-> IF type = "offer" THEN W_actpass ELSE W_active] >>],
         candidates |-> [i \in 1..Len(data.c) |-> DecompressCandidate(data.c[i], i - 1)]]

\* ------------------------------------------------------------------------
\* State
\* ------------------------------------------------------------------------
VARIABLES
  \* closure variables of createDirectConnection
  state, pc, dataChannel, localCandidates, iceCandidateTimeout,
  \* attributes of the RTCPeerConnection that pc refers to (the module never
  \* reads an attribute of any other handle)
  iceConnectionState, connectionState, iceGatheringState, localDescription,
  \* per channel: its readyState ("none": not created) and the handle it
  \* belongs to
  readyState, chanOwner,
  \* per handle: the call whose checkCandidates is its
  \* onicegatheringstatechange handler (0: none); handles closed by close()
  gatherHandler, pcClosed,
  \* number of channels created so far (channel ids are 1..nChannels)
  nChannels,
  \* timers started by setTimeout and neither fired nor cleared
  armed,
  \* the async calls createOffer / createAnswer / acceptAnswer: position,
  \* pending engine call, settled value
  calls,
  \* what the last step did: the operation, the states passed to
  \* callbacks.onStateChange, the message passed to callbacks.onError, the
  \* error raised (thrown, or the rejection of the call just made)
  lastOp, notified, errorCb, thrown,
  \* what the last step passed to dataChannel.send: the channel and the data
  handed,
  \* close() was the last lifecycle call
  closed,
  \* number of API calls made and engine callbacks delivered so far
  nInputs,
  \* the codec on its own: input document, candidate list, token, output
  cstep, cdoc, cpaths, ctoken, cout,
  \* a message on its way to the peer: the value given to send(), the data
  \* handed to the channel, the value given to the peer's onMessage
  mstep, msg, wire, delivered,
  \* two instances of createP2PApp, "host" and "client": per instance the
  \* documentState of its sync manager, isStreaming and tokenCount of its
  \* stream handler, room and peers of its connection manager; the data the
  \* room has still to deliver to each instance; Date.now()
  apps, channel, now,
  \* syncManager.merge on its own: the documentState before the call, the
  \* argument, and what the call left (documentState, notifications made)
  mergeStep, mergeLocal, mergeRemote, mergeResult,
  \* createQRScanner: isScanning and lastScannedData (<<>>: null); what the
  \* last step did (operation, frame, argument of onScan if it was called);
  \* the data onScan was last called with, forgotten at a processed frame
  \* without QR code; number of frames offered so far
  isScanning, lastScannedData, scanStep, reported, nFrames,
  \* the scanner's state, videoStream (Null, or the number of the start call
  \* that obtained it) and videoElement (set or not), and how far each call
  \* of start has come
  scanner,
  \* createDocumentStorage over the in-memory backend: the texts stored under
  \* the document's key and under its history key (<<>>: no item); the states
  \* given to saveDocument so far, in order; what the last getHistory
  \* returned; the last operation
  documentItem, historyItem, saved, history, storeStep,
  \* two sync managers "a" and "b" on their own: the documentState of each,
  \* and the managers that have merged the other's state, in order
  managers, merged,
  \* a relay connection manager on its own: its state, room and peers, the
  \* number of rooms joinRoom has returned, and the rooms not left
  relay

ctrlVars == <<state, pc, dataChannel, localCandidates, iceCandidateTimeout>>
engineVars == <<iceConnectionState, connectionState, iceGatheringState,
                localDescription, readyState, chanOwner, gatherHandler, pcClosed,
                nChannels>>
obsVars == <<lastOp, notified, errorCb, thrown, handed>>
codecVars == <<cstep, cdoc, cpaths, ctoken, cout>>
msgVars == <<mstep, msg, wire, delivered>>
\* the variables of the controller and its engine
directVars == <<ctrlVars, engineVars, armed, calls, obsVars, closed, nInputs>>
appVars == <<apps, channel, now>>
mergeVars == <<mergeStep, mergeLocal, mergeRemote, mergeResult>>
scanVars == <<isScanning, lastScannedData, scanStep, reported, nFrames,
              scanner>>
storeVars == <<documentItem, historyItem, saved, history, storeStep>>
syncVars == <<managers, merged>>
relayVars == <<relay>>
vars == <<directVars, codecVars, msgVars, appVars, mergeVars, scanVars,
          storeVars, syncVars, relayVars>>

\* what a step of one part of the program leaves alone: the other parts
NotDirectVars == <<codecVars, msgVars, appVars, mergeVars, scanVars,
  storeVars, syncVars, relayVars>>
NotCodecVars == <<directVars, msgVars, appVars, mergeVars, scanVars,
  storeVars, syncVars, relayVars>>
NotMsgVars == <<directVars, codecVars, appVars, mergeVars, scanVars,
  storeVars, syncVars, relayVars>>
NotAppVars == <<directVars, codecVars, msgVars, mergeVars, scanVars,
  storeVars, syncVars, relayVars>>
NotMergeVars == <<directVars, codecVars, msgVars, appVars, scanVars,
  storeVars, syncVars, relayVars>>
NotScanVars == <<directVars, codecVars, msgVars, appVars, mergeVars,
  storeVars, syncVars, relayVars>>
NotStoreVars == <<directVars, codecVars, msgVars, appVars, mergeVars,
  scanVars, syncVars, relayVars>>
\* the pair of sync managers reads the clock of the application part
NotSyncVars == <<directVars, codecVars, msgVars, apps, channel, mergeVars,
  scanVars, storeVars, relayVars>>
NotRelayVars == <<directVars, codecVars, msgVars, appVars, mergeVars,
  scanVars, storeVars, syncVars>>

\* DirectConnectionState
IDLE == "idle"
OFFERING == "offering"
ANSWERING == "answering"
CONNECTING == "connecting"
CONNECTED == "connected"
DISCONNECTED == "disconnected"
FAILED == "failed"
\* ConnectionState.ERROR of the relay connection manager
ERROR == "error"
\* ScannerState; IDLE and ERROR have the values of the states above
STARTING == "starting"
SCANNING == "scanning"
STOPPED == "stopped"

\* ------------------------------------------------------------------------
\* Inputs
\* ------------------------------------------------------------------------
CandHost == [shape |-> "ipv4", ip |-> <<192, 168, 1, 100>>, port |-> 54321, typ |-> W_host]
CandSrflx == [shape |-> "ipv4", ip |-> <<10, 0, 0, 255>>, port |-> 9, typ |-> W_srflx]
CandRelay == [shape |-> "ipv4", ip |-> <<0, 255, 7, 1>>, port |-> 65535, typ |-> W_relay]
CandNull == [shape |-> "null", ip |-> <<>>, port |-> 0, typ |-> <<>>]
CandEmpty == [shape |-> "empty", ip |-> <<>>, port |-> 0, typ |-> <<>>]
CandIPv6 == [shape |-> "nomatch", ip |-> <<>>, port |-> 0, typ |-> <<>>]

\* the documents the engine of this controller and of its peer produce
EngineDoc(type) ==
  [type |-> type, ufrag |-> <<"u","f">>, pwd |-> <<"p","w">>,
   digest |-> [i \in 1..FpLen |-> 171], style |-> "plain"]

PeerDoc(type) ==
  [type |-> type, ufrag |-> <<"r","u">>, pwd |-> <<"r","p">>,
   digest |-> [i \in 1..FpLen |-> 10], style |-> "plain"]

\* tokens a caller can pass to createAnswer / acceptAnswer: the peer's offer,
\* the peer's answer, and text that is not a token ("garbage")
PeerOfferToken == compressSignaling(RenderSdp(PeerDoc("offer")), <<CandHost>>).token

PeerAnswerToken ==
  compressSignaling(RenderSdp(PeerDoc("answer")), <<CandSrflx, CandHost>>).token

\* base64 of a record that has no property f
NoFingerprintToken ==
  [PeerOfferToken EXCEPT !.has = {"t", "u", "p", "c"}, !.f = <<>>]

DecodedOffer == decompressSignaling(PeerOfferToken)
DecodedAnswer == decompressSignaling(PeerAnswerToken)
DecodedGarbage == decompressSignaling(NoToken)

\* decompressSignaling(token) for the tokens above
Decoded(name) ==
  IF name = "peerOffer" THEN DecodedOffer
  ELSE IF name = "peerAnswer" THEN DecodedAnswer
  ELSE IF name = "noFingerprint" THEN decompressSignaling(NoFingerprintToken)
  ELSE DecodedGarbage

\* the candidates the engine of this controller discovers, in the order it
\* reports them
LocalCandOrder(n) == IF n % 3 = 1 THEN CandHost ELSE IF n % 3 = 2 THEN CandSrflx ELSE CandRelay

\* pc.localDescription
LocalDescriptionDoc(type) == RenderSdp(EngineDoc(type))

\* ------------------------------------------------------------------------
\* setState and the bookkeeping of a step
\* ------------------------------------------------------------------------
\* setState without its guard
StateDiffers_Always(old, new) == TRUE

\* setState: if (state !== newState)
StateDiffers(old, new) == old # new

\* every setState of the step calls callbacks.onStateChange
Notifications_EverySet(old, sets) == sets

\* the values callbacks.onStateChange is called with when a step calls
\* setState for each element of sets, the state being old before
RECURSIVE Notifications(_, _)
Notifications(old, sets) ==
  IF sets = <<>> THEN <<>>
  ELSE (IF StateDiffers(old, Head(sets)) THEN <<Head(sets)>> ELSE <<>>)
       \o Notifications(Head(sets), Tail(sets))

\* a step that calls setState for each element of sets, calls
\* callbacks.onError(err) unless err = "", and raises thr unless thr = ""
Emit(op, sets, err, thr) ==
  /\ state' = IF sets = <<>> THEN state ELSE sets[Len(sets)]
  /\ notified' = Notifications(state, sets)
  /\ errorCb' = err
  /\ thrown' = thr
  /\ lastOp' = op
  /\ handed' = <<>>

NoCompressed == [ok |-> FALSE, error |-> "", token |-> NoToken]

NoDecompressed == [ok |-> FALSE, error |-> "", description |-> NoDescription,
                   candidates |-> <<>>]

NoCall == [kind |-> "none", at |-> "none", i |-> 0, tok |-> "none", eng |-> 0,
           error |-> "", result |-> NoToken]

CallIds == 1..MaxCalls

ChannelIds == 1..MaxChannels

Handles == {h \in CallIds : calls[h].kind \in {"offer", "answer"}}

\* the handles the engine still delivers events on: created, and not closed by
\* pc.close() (a handle replaced by a later createPeerConnection() was never
\* closed)
LiveHandles == Handles \ pcClosed

NextCall == Cardinality({k \in CallIds : calls[k].kind # "none"}) + 1

\* createDirectConnection(options): the controller as constructed
CtrlInit ==
  /\ state = IDLE /\ pc = 0 /\ dataChannel = 0 /\ localCandidates = <<>>
  /\ iceCandidateTimeout = 0
  /\ iceConnectionState = "new" /\ connectionState = "new"
  /\ iceGatheringState = "new" /\ localDescription = "null"
  /\ readyState = [c \in ChannelIds |-> "none"]
  /\ chanOwner = [c \in ChannelIds |-> 0]
  /\ gatherHandler = [h \in CallIds |-> 0] /\ pcClosed = {}
  /\ nChannels = 0
  /\ armed = {}
  /\ calls = [k \in CallIds |-> NoCall]
  /\ lastOp = "init" /\ notified = <<>> /\ errorCb = "" /\ thrown = ""
  /\ handed = <<>>
  /\ closed = FALSE
  /\ nInputs = 0

CodecUnused ==
  /\ cstep = "unused" /\ cdoc = EngineDoc("offer") /\ cpaths = <<>>
  /\ ctoken = NoCompressed /\ cout = NoDecompressed

NoValue == [t |-> "none", key |-> <<>>, val |-> <<>>]

MsgUnused == mstep = "unused" /\ msg = NoValue /\ wire = <<>> /\ delivered = NoValue

\* null, as the operator > reads it
Null == 0

\* JavaScript values that reach syncManager.merge: kind is "null",
\* "string" or "object", has is the set of properties an object owns
NoObject ==
  [kind |-> "null", has |-> {}, type |-> "", text |-> <<>>, chunks |-> <<>>,
   version |-> 0, lastUpdated |-> Null, tokenIndex |-> 0]

\* createSyncManager: documentState = { text: '', chunks: [], version: 0,
\* lastUpdated: null }
EmptyDocument ==
  [NoObject EXCEPT !.kind = "object",
                   !.has = {"text", "chunks", "version", "lastUpdated"}]

Instances == {"host", "client"}

Other(who) == IF who = "host" THEN "client" ELSE "host"

NewApp ==
  [documentState |-> EmptyDocument, isStreaming |-> FALSE, tokenCount |-> 0,
   room |-> FALSE, peers |-> {},
   \* tokens accepted so far, and those accepted after the client joined
   accepted |-> 0, joinedTokens |-> 0]

AppUnused ==
  /\ apps = [who \in Instances |-> NewApp]
  /\ channel = [who \in Instances |-> <<>>]
  /\ now = 0

MergeUnused ==
  /\ mergeStep = "unused" /\ mergeLocal = EmptyDocument /\ mergeRemote = NoObject
  /\ mergeResult = [documentState |-> EmptyDocument, notified |-> FALSE]

\* a video frame without QR code
NoQR == [qr |-> FALSE, data |-> ""]

\* createQRScanner
ScannerCreated ==
  /\ isScanning = FALSE /\ lastScannedData = <<>>
  /\ scanStep = [op |-> "created", frame |-> NoQR, onScan |-> <<>>]
  /\ reported = <<>>
  /\ nFrames = 0
  /\ scanner = [state |-> IDLE, videoStream |-> Null, videoElement |-> FALSE,
                starts |-> [k \in 1..MaxStarts |-> "none"]]

\* createDocumentStorage over a new in-memory backend
StorageCreated ==
  /\ documentItem = <<>> /\ historyItem = <<>>
  /\ saved = <<>> /\ history = <<>>
  /\ storeStep = "created"

\* createSyncManager, twice
ManagersCreated ==
  /\ managers = [m \in {"a", "b"} |-> EmptyDocument]
  /\ merged = <<>>

\* createConnectionManager
ConnectionManagerCreated ==
  relay = [state |-> DISCONNECTED, room |-> Null, peers |-> {},
           joined |-> 0, rooms |-> {}]

\* the parts of the program other than part are as constructed
OthersUnused(part) ==
  /\ IF part = "direct" THEN TRUE ELSE CtrlInit
  /\ IF part = "codec" THEN TRUE ELSE CodecUnused
  /\ IF part = "message" THEN TRUE ELSE MsgUnused
  /\ IF part = "app" THEN TRUE ELSE AppUnused
  /\ IF part = "merge" THEN TRUE ELSE MergeUnused
  /\ IF part = "scanner" THEN TRUE ELSE ScannerCreated
  /\ IF part = "storage" THEN TRUE ELSE StorageCreated
  /\ ManagersCreated
  /\ ConnectionManagerCreated

Init ==
  /\ CtrlInit
  /\ OthersUnused("direct")

\* ------------------------------------------------------------------------
\* createPeerConnection, setupDataChannel, the wait of createOffer/createAnswer
\* ------------------------------------------------------------------------
\* createPeerConnection(): a fresh handle k becomes pc, the accumulator is
\* emptied; the fresh handle's attributes are the initial ones
CreatePeerConnection(k) ==
  /\ pc' = k
  /\ localCandidates' = <<>>
  /\ iceConnectionState' = "new"
  /\ connectionState' = "new"
  /\ iceGatheringState' = "new"

\* checkCandidates: pc.iceGatheringState === 'complete' ||
\* localCandidates.length >= 3
CheckReady(gathering, cands) ==
  gathering = "complete" \/ Len(cands) >= EnoughCandidates

\* the wait compressing the description without the accumulated candidates
WaitToken_NoCandidates(desc, cands) ==
  compressSignaling(LocalDescriptionDoc(desc), <<>>).token

\* compressSignaling(pc.localDescription, localCandidates) in the wait
WaitToken(desc, cands) == compressSignaling(LocalDescriptionDoc(desc), cands).token

\* resolve(compressed): settles call j unless it is settled already
Resolve(cs, j, token) ==
  IF cs[j].at = "wait"
  THEN [cs EXCEPT ![j].at = "resolved", ![j].result = token]
  ELSE cs

Reject(cs, j, err) ==
  [cs EXCEPT ![j].at = "rejected", ![j].error = err, ![j].i = 0, ![j].eng = 0]

\* createOffer / createAnswer after `await pc.setLocalDescription(..)`:
\* setState(newState), then the executor of the returned promise
BeginWait(k, type, newState, op) ==
  LET desc == IF pc # 0 /\ calls[k].eng = pc THEN type ELSE localDescription IN
  /\ localDescription' = desc
  /\ IF pc = 0
     THEN \* pc.onicegatheringstatechange = ... throws inside the executor
          /\ calls' = Reject(calls, k, "TypeError")
          /\ UNCHANGED <<gatherHandler, iceCandidateTimeout, armed>>
          /\ Emit(op, <<newState>>, "", "TypeError")
     ELSE /\ gatherHandler' = [gatherHandler EXCEPT ![pc] = k]
          /\ iceCandidateTimeout' = k
          /\ IF CheckReady(iceGatheringState, localCandidates)
             THEN /\ armed' = armed \ {k}
                  /\ IF desc = "null"
                     THEN /\ calls' = Reject(calls, k, "TypeError")
                          /\ Emit(op, <<newState>>, "", "TypeError")
                     ELSE /\ calls' = Resolve([calls EXCEPT ![k].at = "wait", ![k].eng = 0], k,
                                              WaitToken(desc, localCandidates))
                          /\ Emit(op, <<newState>>, "", "")
             ELSE /\ armed' = armed \cup {k}
                  /\ calls' = [calls EXCEPT ![k].at = "wait", ![k].eng = 0]
                  /\ Emit(op, <<newState>>, "", "")
  /\ UNCHANGED <<pc, dataChannel, localCandidates, iceConnectionState, connectionState,
                 iceGatheringState, readyState, chanOwner, pcClosed, nChannels, closed>>

\* ------------------------------------------------------------------------
\* createOffer
\* ------------------------------------------------------------------------
\* the synchronous part, up to `await pc.createOffer()`
CreateOffer ==
  LET k == NextCall IN
  /\ k <= MaxCalls
  /\ nChannels < MaxChannels
  /\ CreatePeerConnection(k)
  \* pc.createDataChannel + setupDataChannel: a fresh channel is 'connecting'
  /\ nChannels' = nChannels + 1
  /\ dataChannel' = nChannels + 1
  /\ readyState' = [readyState EXCEPT ![nChannels + 1] = "connecting"]
  /\ chanOwner' = [chanOwner EXCEPT ![nChannels + 1] = k]
  /\ localDescription' = "null"
  /\ calls' = [calls EXCEPT ![k] = [NoCall EXCEPT !.kind = "offer", !.at = "create"]]
  /\ closed' = FALSE
  /\ Emit("createOffer", <<>>, "", "")
  /\ UNCHANGED <<iceCandidateTimeout, gatherHandler, pcClosed, armed>>

\* `await pc.createOffer()` resolved: pc.setLocalDescription(offer)
OfferCreated(k) ==
  /\ calls[k].kind = "offer" /\ calls[k].at = "create"
  /\ IF pc = 0
     THEN /\ calls' = Reject(calls, k, "TypeError")
          /\ Emit("resume", <<>>, "", "TypeError")
     ELSE /\ calls' = [calls EXCEPT ![k].at = "setLocal", ![k].eng = pc]
          /\ Emit("resume", <<>>, "", "")
  /\ UNCHANGED <<pc, dataChannel, localCandidates, iceCandidateTimeout, engineVars,
                 armed, closed>>

\* `await pc.setLocalDescription(offer)` resolved
OfferLocalSet(k) ==
  /\ calls[k].kind = "offer" /\ calls[k].at = "setLocal"
  /\ BeginWait(k, "offer", OFFERING, "resume")

\* ------------------------------------------------------------------------
\* createAnswer and acceptAnswer
\* ------------------------------------------------------------------------
RemoteCandidates(k) == Decoded(calls[k].tok).candidates

\* the loop `for (const candidate of candidates) { try { await
\* pc.addIceCandidate(candidate) } catch (e) { warn } }` and what follows it,
\* resumed after the i-th await of call k (i = 0: setRemoteDescription)
AfterLoop(k, op) ==
  IF calls[k].kind = "answer"
  THEN \* const answer = await pc.createAnswer()
       IF pc = 0
       THEN /\ calls' = Reject(calls, k, "TypeError")
            /\ Emit(op, <<>>, "", "TypeError")
       ELSE /\ calls' = [calls EXCEPT ![k].at = "create", ![k].i = 0]
            /\ Emit(op, <<>>, "", "")
  ELSE \* acceptAnswer: setState(CONNECTING)
       /\ calls' = [calls EXCEPT ![k].at = "resolved", ![k].i = 0]
       /\ Emit(op, <<CONNECTING>>, "", "")

\* the calls without the loop: no decoded candidate is given to the engine
ContinueLoop_NoCandidates(k, i, op) ==
  /\ AfterLoop(k, op)
  /\ UNCHANGED <<pc, dataChannel, localCandidates, iceCandidateTimeout, engineVars,
                 armed, closed>>

ContinueLoop(k, i, op) ==
  /\ IF pc # 0 /\ i < Len(RemoteCandidates(k))
     THEN /\ calls' = [calls EXCEPT ![k].at = "addCand", ![k].i = i + 1]
          /\ Emit(op, <<>>, "", "")
     ELSE \* no candidate left, or pc is null: every remaining
          \* pc.addIceCandidate throws TypeError, which the loop catches
          AfterLoop(k, op)
  /\ UNCHANGED <<pc, dataChannel, localCandidates, iceCandidateTimeout, engineVars,
                 armed, closed>>

\* createAnswer that goes on to pc.setRemoteDescription whatever
\* decompressSignaling did
CreateAnswer_NoDecodeCheck(tok) ==
  LET k == NextCall IN
  /\ k <= MaxCalls
  /\ CreatePeerConnection(k)
  /\ localDescription' = "null"
  /\ closed' = FALSE
  /\ calls' = [calls EXCEPT ![k] = [NoCall EXCEPT !.kind = "answer",
                              !.at = "setRemote", !.tok = tok]]
  /\ Emit("createAnswer", <<ANSWERING>>, "", "")
  /\ UNCHANGED <<dataChannel, readyState, chanOwner, nChannels, iceCandidateTimeout,
                 gatherHandler, pcClosed, armed>>

\* createAnswer(compressedOffer), up to `await pc.setRemoteDescription(..)`
CreateAnswer(tok) ==
  LET k == NextCall
      decoded == Decoded(tok) IN
  /\ k <= MaxCalls
  /\ CreatePeerConnection(k)
  /\ localDescription' = "null"
  /\ closed' = FALSE
  /\ IF decoded.ok
     THEN /\ calls' = [calls EXCEPT ![k] = [NoCall EXCEPT !.kind = "answer",
                                 !.at = "setRemote", !.tok = tok]]
          /\ Emit("createAnswer", <<ANSWERING>>, "", "")
     ELSE /\ calls' = [calls EXCEPT ![k] = [NoCall EXCEPT !.kind = "answer",
                                 !.at = "rejected", !.tok = tok, !.error = decoded.error]]
          /\ Emit("createAnswer", <<ANSWERING>>, "", decoded.error)
  /\ UNCHANGED <<dataChannel, readyState, chanOwner, nChannels, iceCandidateTimeout,
                 gatherHandler, pcClosed, armed>>

NoPeerConnection == "No peer connection - call createOffer first"

\* acceptAnswer without its `if (!pc)` guard: with no handle,
\* pc.setRemoteDescription raises a TypeError
AcceptAnswer_NoGuard(tok) ==
  LET k == NextCall
      decoded == Decoded(tok)
      failed(err) == [NoCall EXCEPT !.kind = "accept", !.at = "rejected", !.tok = tok,
                                    !.error = err] IN
  /\ k <= MaxCalls
  /\ IF ~decoded.ok
     THEN /\ calls' = [calls EXCEPT ![k] = failed(decoded.error)]
          /\ Emit("acceptAnswer", <<>>, "", decoded.error)
     ELSE IF pc = 0
     THEN /\ calls' = [calls EXCEPT ![k] = failed("TypeError")]
          /\ Emit("acceptAnswer", <<>>, "", "TypeError")
     ELSE /\ calls' = [calls EXCEPT ![k] = [NoCall EXCEPT !.kind = "accept",
                                 !.at = "setRemote", !.tok = tok]]
          /\ Emit("acceptAnswer", <<>>, "", "")
  /\ UNCHANGED <<pc, dataChannel, localCandidates, iceCandidateTimeout, engineVars,
                 armed, closed>>

\* acceptAnswer that goes on to pc.setRemoteDescription whatever
\* decompressSignaling did
AcceptAnswer_NoDecodeCheck(tok) ==
  LET k == NextCall
      failed(err) == [NoCall EXCEPT !.kind = "accept", !.at = "rejected", !.tok = tok,
                                    !.error = err] IN
  /\ k <= MaxCalls
  /\ IF pc = 0
     THEN /\ calls' = [calls EXCEPT ![k] = failed(NoPeerConnection)]
          /\ Emit("acceptAnswer", <<>>, "", NoPeerConnection)
     ELSE /\ calls' = [calls EXCEPT ![k] = [NoCall EXCEPT !.kind = "accept",
                                 !.at = "setRemote", !.tok = tok]]
          /\ Emit("acceptAnswer", <<>>, "", "")
  /\ UNCHANGED <<pc, dataChannel, localCandidates, iceCandidateTimeout, engineVars,
                 armed, closed>>

\* acceptAnswer(compressedAnswer), up to `await pc.setRemoteDescription(..)`;
\* a throw in an async function is the rejection of the promise it returns
AcceptAnswer(tok) ==
  LET k == NextCall
      decoded == Decoded(tok)
      failed(err) == [NoCall EXCEPT !.kind = "accept", !.at = "rejected", !.tok = tok,
                                    !.error = err] IN
  /\ k <= MaxCalls
  /\ IF pc = 0
     THEN /\ calls' = [calls EXCEPT ![k] = failed(NoPeerConnection)]
          /\ Emit("acceptAnswer", <<>>, "", NoPeerConnection)
     ELSE IF ~decoded.ok
     THEN /\ calls' = [calls EXCEPT ![k] = failed(decoded.error)]
          /\ Emit("acceptAnswer", <<>>, "", decoded.error)
     ELSE /\ calls' = [calls EXCEPT ![k] = [NoCall EXCEPT !.kind = "accept",
                                 !.at = "setRemote", !.tok = tok]]
          /\ Emit("acceptAnswer", <<>>, "", "")
  /\ UNCHANGED <<pc, dataChannel, localCandidates, iceCandidateTimeout, engineVars,
                 armed, closed>>

\* `await pc.setRemoteDescription(description)` resolved
RemoteSet(k) ==
  /\ calls[k].kind \in {"answer", "accept"} /\ calls[k].at = "setRemote"
  /\ ContinueLoop(k, 0, "resume")

\* the loop without its try/catch: a rejected addIceCandidate rejects the call
CandidateAdded_NoCatch(k, ok) ==
  /\ calls[k].kind \in {"answer", "accept"} /\ calls[k].at = "addCand"
  /\ IF ok
     THEN ContinueLoop(k, calls[k].i, "resume")
     ELSE /\ calls' = Reject(calls, k, "OperationError")
          /\ Emit("refused", <<>>, "", "OperationError")
          /\ UNCHANGED <<pc, dataChannel, localCandidates, iceCandidateTimeout,
                         engineVars, armed, closed>>

\* `await pc.addIceCandidate(candidate)` settled: the engine added the
\* candidate (ok), or it rejected it and the catch block logged a warning
CandidateAdded(k, ok) ==
  /\ calls[k].kind \in {"answer", "accept"} /\ calls[k].at = "addCand"
  /\ ContinueLoop(k, calls[k].i, IF ok THEN "resume" ELSE "refused")

\* `await pc.createAnswer()` resolved: pc.setLocalDescription(answer)
AnswerCreated(k) ==
  /\ calls[k].kind = "answer" /\ calls[k].at = "create"
  /\ IF pc = 0
     THEN /\ calls' = Reject(calls, k, "TypeError")
          /\ Emit("resume", <<>>, "", "TypeError")
     ELSE /\ calls' = [calls EXCEPT ![k].at = "setLocal", ![k].eng = pc]
          /\ Emit("resume", <<>>, "", "")
  /\ UNCHANGED <<pc, dataChannel, localCandidates, iceCandidateTimeout, engineVars,
                 armed, closed>>

\* createAnswer ending with setState(OFFERING)
AnswerLocalSet_Offering(k) ==
  /\ calls[k].kind = "answer" /\ calls[k].at = "setLocal"
  /\ BeginWait(k, "answer", OFFERING, "resume")

\* `await pc.setLocalDescription(answer)` resolved
AnswerLocalSet(k) ==
  /\ calls[k].kind = "answer" /\ calls[k].at = "setLocal"
  /\ BeginWait(k, "answer", CONNECTING, "resume")

\* ------------------------------------------------------------------------
\* close
\* ------------------------------------------------------------------------
\* lastOp after close(): "close again" when the step before was a close() too
CloseOps == {"close", "close again"}

Close ==
  /\ armed' = armed \ {iceCandidateTimeout}
  \* dataChannel.close() and pc.close(): the channel, and every channel of
  \* the handle, starts closing
  /\ readyState' = [c \in ChannelIds |->
                      IF /\ c = dataChannel \/ (pc # 0 /\ chanOwner[c] = pc)
                         /\ readyState[c] \in {"connecting", "open"}
                      THEN "closing" ELSE readyState[c]]
  /\ dataChannel' = 0
  /\ pc' = 0
  /\ pcClosed' = IF pc # 0 THEN pcClosed \cup {pc} ELSE pcClosed
  /\ iceConnectionState' = "new"
  /\ connectionState' = "new"
  /\ iceGatheringState' = "new"
  /\ localDescription' = "null"
  /\ localCandidates' = <<>>
  /\ closed' = TRUE
  /\ Emit(IF lastOp \in CloseOps THEN "close again" ELSE "close", <<DISCONNECTED>>, "", "")
  /\ UNCHANGED <<iceCandidateTimeout, gatherHandler, chanOwner, nChannels, calls>>

\* ------------------------------------------------------------------------
\* send
\* ------------------------------------------------------------------------
\* messages an application sends: a string, and an object with one string
\* field
MsgText == [t |-> "string", key |-> <<>>, val |-> <<"h","i">>]
MsgObject == [t |-> "object", key |-> <<"t","y","p","e">>, val |-> <<"o","k">>]
Messages == {MsgText, MsgObject}

\* JSON.stringify of a string without characters to escape
JsonString(chars) == <<"\"">> \o chars \o <<"\"">>

\* JSON.stringify of an object with one string field
JsonStringify(obj) ==
  <<"{">> \o JsonString(obj.key) \o <<":">> \o JsonString(obj.val) \o <<"}">>

MsgEmptyObject == [t |-> "emptyObject", key |-> <<>>, val |-> <<>>]

\* typeof message === 'object' ? JSON.stringify(message) : message
SendData(m) ==
  IF m.t = "object" THEN JsonStringify(m)
  ELSE IF m.t = "emptyObject" THEN <<"{", "}">>
  ELSE m.val

\* JSON.parse, for the texts that occur here: texts over MsgAlphabet and the
\* JSON texts of objects with at most one field, whose value is a string.
\* A number is kept as its digits.
IsDigit(ch) == ch \in {"0", "1", "2", "3", "4", "5", "6", "7", "8", "9"}

\* JSON.parse(s): whether it returns (ok) and the value it returns
JsonParse(s) ==
  LET IsNumber(x) ==
        /\ Len(x) >= 1
        /\ \A i \in 1..Len(x) : IsDigit(x[i])
        /\ Len(x) > 1 => x[1] # "0"
      IsString(x) ==
        /\ Len(x) >= 2
        /\ x[1] = "\"" /\ x[Len(x)] = "\""
        /\ \A i \in 2..(Len(x) - 1) : x[i] \notin {"\"", "\\"}
      \* s is {"key":"val"} with the key's closing quote at position i
      IsFieldAt(i) ==
        /\ Len(s) >= 7 /\ i \in 3..(Len(s) - 4)
        /\ s[1] = "{" /\ s[Len(s)] = "}"
        /\ IsString(SubSeq(s, 2, i))
        /\ s[i + 1] = ":"
        /\ IsString(SubSeq(s, i + 2, Len(s) - 1))
  IN
  IF IsNumber(s) THEN [ok |-> TRUE, v |-> [t |-> "number", key |-> <<>>, val |-> s]]
  ELSE IF IsString(s)
  THEN [ok |-> TRUE,
        v |-> [t |-> "string", key |-> <<>>, val |-> SubSeq(s, 2, Len(s) - 1)]]
  ELSE IF s = <<"{", "}">> THEN [ok |-> TRUE, v |-> MsgEmptyObject]
  ELSE IF \E i \in 1..Len(s) : IsFieldAt(i)
  THEN LET i == CHOOSE j \in 1..Len(s) : IsFieldAt(j)
       IN  [ok |-> TRUE,
            v |-> [t |-> "object",
                   key |-> SubSeq(s, 3, i - 1),
                   val |-> SubSeq(s, i + 3, Len(s) - 2)]]
  ELSE \* SyntaxError
       [ok |-> FALSE, v |-> MsgEmptyObject]

\* dataChannel.onmessage: try { callbacks.onMessage(JSON.parse(event.data)) }
\* catch (e) { callbacks.onMessage(event.data) }; the value given to onMessage
OnMessage(data) ==
  IF JsonParse(data).ok THEN JsonParse(data).v
  ELSE [t |-> "string", key |-> <<>>, val |-> data]

ChannelNotOpen == "Data channel not open"

\* send that only tests that there is a channel, not that it is open
Send_NoReadyCheck(m) ==
  /\ IF dataChannel = 0
     THEN thrown' = ChannelNotOpen /\ handed' = <<>>
     ELSE thrown' = "" /\ handed' = <<[channel |-> dataChannel, data |-> SendData(m)]>>
  /\ lastOp' = "send" /\ notified' = <<>> /\ errorCb' = ""
  /\ UNCHANGED <<ctrlVars, engineVars, armed, calls, closed>>

\* send(message)
Send(m) ==
  /\ IF dataChannel = 0 \/ readyState[dataChannel] # "open"
     THEN thrown' = ChannelNotOpen /\ handed' = <<>>
     ELSE thrown' = "" /\ handed' = <<[channel |-> dataChannel, data |-> SendData(m)]>>
  /\ lastOp' = "send" /\ notified' = <<>> /\ errorCb' = ""
  /\ UNCHANGED <<ctrlVars, engineVars, armed, calls, closed>>

\* ------------------------------------------------------------------------
\* Callbacks of the engine.  A handle or channel keeps the handlers the
\* module gave it, so a callback can arrive after the module replaced it.
\* The engine accepts every request made of it (createOffer, createAnswer,
\* setLocalDescription, setRemoteDescription), as MockRTCPeerConnection does.
\* ------------------------------------------------------------------------
IceStates == {"new", "connected", "completed", "failed", "disconnected"}
ConnStates == {"new", "connected", "failed"}
GatheringStates == {"new", "gathering", "complete"}

ChannelIsOpen == dataChannel # 0 /\ readyState[dataChannel] = "open"

\* the failure handler without its callbacks.onError call
IceFailedError_NotReported == ""

\* callbacks.onError(new Error('ICE connection failed'))
IceFailedError == "ICE connection failed"

\* pc.oniceconnectionstatechange, fired on handle h after the engine set its
\* iceConnectionState to s
IceConnectionStateChange(h, s) ==
  /\ h \in LiveHandles
  /\ IF h = pc
     THEN s # iceConnectionState /\ iceConnectionState' = s
     ELSE s = "new" /\ UNCHANGED iceConnectionState
  /\ LET ice == IF h = pc THEN s ELSE iceConnectionState IN
     IF pc = 0 THEN Emit("callback", <<>>, "", "TypeError")
     ELSE IF ice \in {"connected", "completed"}
       THEN IF ChannelIsOpen THEN Emit("callback", <<CONNECTED>>, "", "")
            ELSE Emit("callback", <<>>, "", "")
     ELSE IF ice = "failed"
       THEN Emit("callback", <<FAILED>>, IceFailedError, "")
     ELSE IF ice = "disconnected"
       THEN Emit("callback", <<DISCONNECTED>>, "", "")
     ELSE Emit("callback", <<>>, "", "")
  /\ UNCHANGED <<pc, dataChannel, localCandidates, iceCandidateTimeout, connectionState,
                 iceGatheringState, localDescription, readyState, chanOwner,
                 gatherHandler, pcClosed, nChannels, armed, calls, closed>>

\* pc.onconnectionstatechange
ConnectionStateChange(h, s) ==
  /\ h \in LiveHandles
  /\ IF h = pc
     THEN s # connectionState /\ connectionState' = s
     ELSE s = "new" /\ UNCHANGED connectionState
  /\ LET cs == IF h = pc THEN s ELSE connectionState IN
     IF pc = 0 THEN Emit("callback", <<>>, "", "TypeError")
     ELSE IF cs = "connected"
       THEN IF ChannelIsOpen THEN Emit("callback", <<CONNECTED>>, "", "")
            ELSE Emit("callback", <<>>, "", "")
     ELSE IF cs = "failed"
       THEN Emit("callback", <<FAILED>>, "Connection failed", "")
     ELSE Emit("callback", <<>>, "", "")
  /\ UNCHANGED <<pc, dataChannel, localCandidates, iceCandidateTimeout,
                 iceConnectionState, iceGatheringState, localDescription, readyState,
                 chanOwner, gatherHandler, pcClosed, nChannels, armed, calls, closed>>

\* pc.onicecandidate with a candidate (the end-of-candidates event, whose
\* candidate is null, changes nothing)
IceCandidate(h) ==
  /\ h \in LiveHandles
  /\ Len(localCandidates) < MaxCands
  /\ localCandidates' = Append(localCandidates, LocalCandOrder(Len(localCandidates) + 1))
  /\ Emit("callback", <<>>, "", "")
  /\ UNCHANGED <<pc, dataChannel, iceCandidateTimeout, engineVars, armed, calls, closed>>

\* pc.onicegatheringstatechange: checkCandidates of the call that registered it
IceGatheringStateChange(h, s) ==
  /\ h \in LiveHandles
  /\ IF h = pc
     THEN s # iceGatheringState /\ iceGatheringState' = s
     ELSE s = "new" /\ UNCHANGED iceGatheringState
  /\ LET g == IF h = pc THEN s ELSE iceGatheringState
         j == gatherHandler[h] IN
     IF j = 0 THEN /\ Emit("callback", <<>>, "", "")
                   /\ UNCHANGED <<armed, calls>>
     ELSE IF pc = 0 THEN /\ Emit("callback", <<>>, "", "TypeError")
                         /\ UNCHANGED <<armed, calls>>
     ELSE IF CheckReady(g, localCandidates)
       THEN /\ armed' = armed \ {iceCandidateTimeout}
            /\ IF localDescription = "null"
               THEN /\ Emit("callback", <<>>, "", "TypeError")
                    /\ UNCHANGED calls
               ELSE /\ calls' = Resolve(calls, j, WaitToken(localDescription, localCandidates))
                    /\ Emit("callback", <<>>, "", "")
     ELSE /\ Emit("callback", <<>>, "", "")
          /\ UNCHANGED <<armed, calls>>
  /\ UNCHANGED <<pc, dataChannel, localCandidates, iceCandidateTimeout,
                 iceConnectionState, connectionState, localDescription, readyState,
                 chanOwner, gatherHandler, pcClosed, nChannels, closed>>

\* pc.ondatachannel: setupDataChannel(event.channel) with a channel that is
\* still connecting or already open
DataChannelAnnounced(h, rs) ==
  /\ h \in LiveHandles
  /\ nChannels < MaxChannels
  /\ rs \in {"connecting", "open"}
  /\ nChannels' = nChannels + 1
  /\ dataChannel' = nChannels + 1
  /\ readyState' = [readyState EXCEPT ![nChannels + 1] = rs]
  /\ chanOwner' = [chanOwner EXCEPT ![nChannels + 1] = h]
  /\ Emit("callback", IF rs = "open" THEN <<CONNECTED>> ELSE <<>>, "", "")
  /\ UNCHANGED <<pc, localCandidates, iceCandidateTimeout, iceConnectionState,
                 connectionState, iceGatheringState, localDescription, gatherHandler,
                 pcClosed, armed, calls, closed>>

\* dataChannel.onopen of channel c
ChannelOpen(c) ==
  /\ c \in 1..nChannels
  /\ readyState[c] = "connecting"
  /\ readyState' = [readyState EXCEPT ![c] = "open"]
  /\ Emit("callback", <<CONNECTED>>, "", "")
  /\ UNCHANGED <<pc, dataChannel, localCandidates, iceCandidateTimeout,
                 iceConnectionState, connectionState, iceGatheringState,
                 localDescription, chanOwner, gatherHandler, pcClosed, nChannels,
                 armed, calls, closed>>

\* dataChannel.onclose of channel c
ChannelClose(c) ==
  /\ c \in 1..nChannels
  /\ readyState[c] \in {"connecting", "open", "closing"}
  /\ readyState' = [readyState EXCEPT ![c] = "closed"]
  /\ Emit("callback", <<DISCONNECTED>>, "", "")
  /\ UNCHANGED <<pc, dataChannel, localCandidates, iceCandidateTimeout,
                 iceConnectionState, connectionState, iceGatheringState,
                 localDescription, chanOwner, gatherHandler, pcClosed, nChannels,
                 armed, calls, closed>>

\* the callback of the timer that call k started with setTimeout(.., 3000)
Timeout(k) ==
  /\ k \in armed
  /\ armed' = armed \ {k}
  /\ IF pc = 0 \/ localDescription = "null"
     THEN /\ Emit("timeout", <<>>, "", "TypeError")
          /\ UNCHANGED calls
     ELSE /\ calls' = Resolve(calls, k, WaitToken(localDescription, localCandidates))
          /\ Emit("timeout", <<>>, "", "")
  /\ UNCHANGED <<pc, dataChannel, localCandidates, iceCandidateTimeout, engineVars, closed>>

\* ------------------------------------------------------------------------
\* The controller and its engine
\* ------------------------------------------------------------------------
\* a call of the API by the application, or an event delivered by the engine
Input(A) ==
  /\ nInputs < MaxInputs
  /\ A
  /\ nInputs' = nInputs + 1
  /\ UNCHANGED NotDirectVars

\* the continuation of an async function, or a timer callback
Internal(A) == A /\ UNCHANGED <<nInputs, NotDirectVars>>

ApiCall ==
  \/ Input(CreateOffer)
  \/ \E tok \in {"peerOffer", "garbage", "noFingerprint"} : Input(CreateAnswer(tok))
  \/ \E tok \in {"peerAnswer", "garbage"} : Input(AcceptAnswer(tok))
  \/ Input(Close)
  \/ \E m \in Messages : Input(Send(m))

Resume ==
  \/ \E k \in CallIds : Internal(OfferCreated(k))
  \/ \E k \in CallIds : Internal(OfferLocalSet(k))
  \/ \E k \in CallIds : Internal(RemoteSet(k))
  \/ \E k \in CallIds, ok \in BOOLEAN : Internal(CandidateAdded(k, ok))
  \/ \E k \in CallIds : Internal(AnswerCreated(k))
  \/ \E k \in CallIds : Internal(AnswerLocalSet(k))

EngineCallback ==
  \/ \E h \in CallIds : Input(IceCandidate(h))
  \/ \E h \in CallIds, s \in IceStates : Input(IceConnectionStateChange(h, s))
  \/ \E h \in CallIds, s \in ConnStates : Input(ConnectionStateChange(h, s))
  \/ \E h \in CallIds, s \in GatheringStates : Input(IceGatheringStateChange(h, s))
  \/ \E h \in CallIds, rs \in {"connecting", "open"} : Input(DataChannelAnnounced(h, rs))
  \/ \E c \in ChannelIds : Input(ChannelOpen(c))
  \/ \E c \in ChannelIds : Input(ChannelClose(c))

TimerFires == \E k \in CallIds : Internal(Timeout(k))

Next ==
  \/ ApiCall
  \/ Resume
  \/ EngineCallback
  \/ TimerFires

Spec == Init /\ [][Next]_vars

\* ------------------------------------------------------------------------
\* The codec on its own: compressSignaling applied to a document and a
\* candidate list, decompressSignaling applied to the token it returned
\* ------------------------------------------------------------------------
\* digests with bytes below and above 16, 0 and 255 among them
DigestOf(seed) == [i \in 1..FpLen |-> (seed + (i - 1) * 245) % 256]

CodecDocs ==
  {[type |-> t, ufrag |-> <<"a","+","/","9">>, pwd |-> <<"p","w",":","Z">>,
    digest |-> DigestOf(seed), style |-> st] :
     t \in {"offer", "answer"}, seed \in {0, 10}, st \in DocStyles}

CandPool == {CandHost, CandSrflx, CandRelay, CandIPv6}

PathLists == UNION {[1..n -> CandPool] : n \in 0..MaxPaths}

\* candidate lists with entries compressSignaling skips: null, an empty
\* candidate string and an IPv6 candidate, among IPv4 candidates of two
\* kinds
EntryLists ==
  UNION {[1..n -> {CandNull, CandEmpty, CandIPv6, CandHost, CandRelay}] :
           n \in 0..MaxEntries}

\* tokens that compressSignaling did not make: text that is not base64 of a
\* record, and records that own any subset of the five properties
RecordOf(has) ==
  [wellFormed |-> TRUE, has |-> has,
   t |-> IF "t" \in has THEN "o" ELSE "",
   u |-> IF "u" \in has THEN <<"a","+","/","9">> ELSE <<>>,
   p |-> IF "p" \in has THEN <<"p","w",":","Z">> ELSE <<>>,
   f |-> IF "f" \in has THEN Btoa(DigestOf(10)) ELSE <<>>,
   c |-> IF "c" \in has THEN <<CompressCandidate(CandHost)>> ELSE <<>>]

RawTokens == {NoToken} \cup {RecordOf(has) : has \in SUBSET {"t", "u", "p", "f", "c"}}

CodecInit ==
  /\ OthersUnused("codec")
  /\ \/ /\ cstep = "input" /\ cdoc \in CodecDocs /\ cpaths \in PathLists
        /\ ctoken = NoCompressed
     \/ /\ cstep = "input"
        /\ cdoc = [type |-> "offer", ufrag |-> <<"a","+","/","9">>,
                   pwd |-> <<"p","w",":","Z">>, digest |-> DigestOf(10),
                   style |-> "plain"]
        /\ cpaths \in EntryLists
        /\ ctoken = NoCompressed
     \/ /\ cstep = "token"
        /\ cdoc = [type |-> "offer", ufrag |-> <<>>, pwd |-> <<>>,
                   digest |-> DigestOf(10), style |-> "plain"]
        /\ cpaths = <<>>
        /\ \E tok \in RawTokens : ctoken = [ok |-> TRUE, error |-> "", token |-> tok]
  /\ cout = NoDecompressed

Compress ==
  /\ cstep = "input"
  /\ ctoken' = compressSignaling(RenderSdp(cdoc), cpaths)
  /\ cstep' = IF ctoken'.ok THEN "compressed" ELSE "failed"
  /\ UNCHANGED <<cdoc, cpaths, cout>>

Decompress ==
  /\ cstep \in {"compressed", "token"}
  /\ cout' = decompressSignaling(ctoken.token)
  /\ cstep' = IF cstep = "token" THEN "token decompressed" ELSE "decompressed"
  /\ UNCHANGED <<cdoc, cpaths, ctoken>>

CodecNext ==
  \/ Compress /\ UNCHANGED NotCodecVars
  \/ Decompress /\ UNCHANGED NotCodecVars

CodecSpec == CodecInit /\ [][CodecNext]_vars

\* ------------------------------------------------------------------------
\* A message on its own: send() on an open channel of one controller, and
\* the onmessage handler of the peer controller's channel
\* ------------------------------------------------------------------------
MsgAlphabet == {"a", "0", "1", "\"", "{", "}", ":"}

\* the strings of at most MaxMsgLen characters, and two objects
MessageInputs ==
  {[t |-> "string", key |-> <<>>, val |-> str] :
     str \in UNION {[1..n -> MsgAlphabet] : n \in 0..MaxMsgLen}}
  \cup {MsgText, MsgObject, MsgEmptyObject}

MessageInit ==
  /\ OthersUnused("message")
  /\ mstep = "input" /\ msg \in MessageInputs
  /\ wire = <<>> /\ delivered = NoValue

\* send(message) on an open channel: dataChannel.send(data)
SendOnOpenChannel ==
  /\ mstep = "input"
  /\ wire' = SendData(msg)
  /\ mstep' = "sent"
  /\ UNCHANGED <<msg, delivered>>

\* the channel delivers the data to the peer: dataChannel.onmessage
MessageReceived ==
  /\ mstep = "sent"
  /\ delivered' = OnMessage(wire)
  /\ mstep' = "delivered"
  /\ UNCHANGED <<msg, wire>>

MessageNext ==
  \/ SendOnOpenChannel /\ UNCHANGED NotMsgVars
  \/ MessageReceived /\ UNCHANGED NotMsgVars

MessageSpec == MessageInit /\ [][MessageNext]_vars

\* ------------------------------------------------------------------------
\* The assembled application: createP2PApp on a host and on a client, in
\* one room.  The room delivers what an instance broadcasts to the peers
\* that instance has seen join, in order.
\* ------------------------------------------------------------------------
\* merge that takes the remote state only when its version is greater
merge_NoTieBreak(documentState, remoteState) ==
  IF remoteState.kind # "object"
  THEN [documentState |-> documentState, notified |-> FALSE]
  ELSE IF /\ "version" \in remoteState.has
          /\ remoteState.version > documentState.version
  THEN [documentState |-> remoteState, notified |-> TRUE]
  ELSE [documentState |-> documentState, notified |-> FALSE]

\* syncManager.merge(remoteState): the new documentState, and whether
\* onTextChange, onSync and the observers were notified
merge(documentState, remoteState) ==
  IF remoteState.kind # "object"
  THEN [documentState |-> documentState, notified |-> FALSE]
  ELSE IF /\ "version" \in remoteState.has
          /\ remoteState.version > documentState.version
  THEN [documentState |-> remoteState, notified |-> TRUE]
  ELSE IF /\ "version" \in remoteState.has
          /\ remoteState.version = documentState.version
          /\ "lastUpdated" \in remoteState.has
          /\ "lastUpdated" \in documentState.has
          /\ remoteState.lastUpdated > documentState.lastUpdated
  THEN [documentState |-> remoteState, notified |-> TRUE]
  ELSE [documentState |-> documentState, notified |-> FALSE]

\* syncManager.appendText(text)
appendText(documentState, text) ==
  [documentState EXCEPT !.text = @ \o text,
                        !.chunks = Append(@, text),
                        !.version = @ + 1,
                        !.lastUpdated = now]

\* syncManager.setText(text)
setText(documentState, text) ==
  [documentState EXCEPT !.text = text,
                        !.chunks = <<text>>,
                        !.version = @ + 1,
                        !.lastUpdated = now]

\* streamHandler.onToken's broadcast: { type: 'append', text, tokenIndex }
AppendMessage(token, tokenIndex) ==
  [NoObject EXCEPT !.kind = "object", !.has = {"type", "text", "tokenIndex"},
                   !.type = "append", !.text = token, !.tokenIndex = tokenIndex]

\* connectionManager.broadcast(data) of instance who
broadcast(who, data) ==
  [p \in Instances |->
     IF apps[who].room /\ p \in apps[who].peers
     THEN Append(channel[p], data) ELSE channel[p]]

\* createSession / joinSession (nothing persisted): connectionManager.join
join(who) ==
  /\ ~apps[who].room
  /\ apps' = [apps EXCEPT ![who].room = TRUE]
  /\ UNCHANGED <<channel, now>>

\* room.onPeerJoin at instance who: peers.add(peerId), and the app's
\* onPeerJoin broadcasts syncManager.getState()
onPeerJoin(who) ==
  /\ apps[who].room /\ apps[Other(who)].room
  /\ Other(who) \notin apps[who].peers
  /\ apps' = [apps EXCEPT ![who].peers = @ \cup {Other(who)}]
  /\ channel' = [channel EXCEPT ![Other(who)] =
                   Append(@, apps[who].documentState)]
  /\ UNCHANGED now

\* startStreaming on the host: isStreaming = true, tokenCount = 0,
\* syncManager.reset()
startStreaming ==
  /\ ~apps["host"].isStreaming
  /\ apps' = [apps EXCEPT !["host"].isStreaming = TRUE,
                          !["host"].tokenCount = 0,
                          !["host"].documentState = EmptyDocument]
  /\ UNCHANGED <<channel, now>>

stopStreaming ==
  /\ apps["host"].isStreaming
  /\ apps' = [apps EXCEPT !["host"].isStreaming = FALSE]
  /\ UNCHANGED <<channel, now>>

\* onLLMToken(token) on the host
onLLMToken(token) ==
  /\ apps["host"].accepted < MaxTokens
  /\ IF ~apps["host"].isStreaming
     THEN UNCHANGED <<apps, channel>>
     ELSE /\ apps' = [apps EXCEPT
                        !["host"].tokenCount = @ + 1,
                        !["host"].accepted = @ + 1,
                        !["host"].documentState = appendText(@, token),
                        !["host"].joinedTokens =
                           IF "client" \in apps["host"].peers THEN @ + 1 ELSE @]
          /\ channel' = broadcast("host",
                                  AppendMessage(token, apps["host"].tokenCount + 1))
  /\ UNCHANGED now

\* the room delivers data to instance who: onData calls syncManager.merge
onData(who) ==
  /\ channel[who] # <<>>
  /\ apps' = [apps EXCEPT ![who].documentState =
                            merge(@, Head(channel[who])).documentState]
  /\ channel' = [channel EXCEPT ![who] = Tail(@)]
  /\ UNCHANGED now

\* time passes
Tick ==
  /\ now < MaxClock
  /\ now' = now + 1
  /\ UNCHANGED <<apps, channel>>

AppInit ==
  /\ OthersUnused("app")
  /\ apps = [who \in Instances |-> NewApp]
  /\ channel = [who \in Instances |-> <<>>]
  /\ now = 1

AppNext ==
  \/ \E who \in Instances : join(who) /\ UNCHANGED NotAppVars
  \/ \E who \in Instances : onPeerJoin(who) /\ UNCHANGED NotAppVars
  \/ startStreaming /\ UNCHANGED NotAppVars
  \/ stopStreaming /\ UNCHANGED NotAppVars
  \/ \E token \in {<<"a">>, <<"b">>} :
       onLLMToken(token) /\ UNCHANGED NotAppVars
  \/ \E who \in Instances : onData(who) /\ UNCHANGED NotAppVars
  \/ Tick /\ UNCHANGED NotAppVars

AppSpec == AppInit /\ [][AppNext]_vars

\* ------------------------------------------------------------------------
\* syncManager.merge on its own
\* ------------------------------------------------------------------------
\* document states a sync manager can hold
LocalDocuments ==
  {[EmptyDocument EXCEPT !.text = t, !.chunks = IF t = <<>> THEN <<>> ELSE <<t>>,
                         !.version = v, !.lastUpdated = u] :
     t \in {<<>>, <<"a">>}, v \in 0..MaxTokens, u \in {Null} \cup 1..MaxClock}

\* arguments of merge: null, a string, and objects that own any of version
\* and lastUpdated besides their text
RemoteValues ==
  {NoObject, [NoObject EXCEPT !.kind = "string", !.text = <<"b">>]}
  \cup {[NoObject EXCEPT !.kind = "object", !.has = {"text"} \cup h,
                         !.text = <<"b">>,
                         !.version = IF "version" \in h THEN v ELSE 0,
                         !.lastUpdated = IF "lastUpdated" \in h THEN u ELSE Null] :
          h \in SUBSET {"version", "lastUpdated"},
          v \in 0..MaxTokens, u \in {Null} \cup 1..MaxClock}

MergeInit ==
  /\ OthersUnused("merge")
  /\ mergeStep = "input"
  /\ mergeLocal \in LocalDocuments /\ mergeRemote \in RemoteValues
  /\ mergeResult = [documentState |-> EmptyDocument, notified |-> FALSE]

Merge ==
  /\ mergeStep = "input"
  /\ mergeResult' = merge(mergeLocal, mergeRemote)
  /\ mergeStep' = "merged"
  /\ UNCHANGED <<mergeLocal, mergeRemote>>

MergeNext == Merge /\ UNCHANGED NotMergeVars

MergeSpec == MergeInit /\ [][MergeNext]_vars

\* ------------------------------------------------------------------------
\* Two sync managers: each is edited, then each merges the other's state
\* ------------------------------------------------------------------------
\* manager m.appendText(text) or manager m.setText(text), before any merge
ManagerEdit(m, op, text) ==
  /\ merged = <<>>
  /\ managers[m].version < MaxEdits
  /\ managers' = [managers EXCEPT ![m] =
                    IF op = "appendText" THEN appendText(@, text)
                    ELSE setText(@, text)]
  /\ UNCHANGED <<merged, now>>

\* manager m.merge(other.getState()), once per manager
ManagerMerge(m) ==
  /\ \A i \in 1..Len(merged) : merged[i] # m
  /\ LET other == IF m = "a" THEN "b" ELSE "a" IN
     managers' = [managers EXCEPT ![m] = merge(@, managers[other]).documentState]
  /\ merged' = Append(merged, m)
  /\ UNCHANGED now

\* time passes between two edits
ManagerTick ==
  /\ merged = <<>>
  /\ now < MaxClock
  /\ now' = now + 1
  /\ UNCHANGED <<managers, merged>>

SyncInit ==
  /\ OthersUnused("app")
  /\ apps = [who \in Instances |-> NewApp]
  /\ channel = [who \in Instances |-> <<>>]
  /\ now = 1

SyncNext ==
  \/ \E m \in {"a", "b"}, op \in {"appendText", "setText"},
        text \in {<<"x">>, <<"y">>} :
       ManagerEdit(m, op, text) /\ UNCHANGED NotSyncVars
  \/ \E m \in {"a", "b"} : ManagerMerge(m) /\ UNCHANGED NotSyncVars
  \/ ManagerTick /\ UNCHANGED NotSyncVars

SyncSpec == SyncInit /\ [][SyncNext]_vars

\* ------------------------------------------------------------------------
\* The relay connection manager on its own: join, leave, and the callbacks
\* of the rooms it has joined and not left
\* ------------------------------------------------------------------------
\* /^[0-9a-f]{8}-[0-9a-f]{4}-4[0-9a-f]{3}-[89ab][0-9a-f]{3}-[0-9a-f]{12}$/i
validateRoomId(roomId) ==
  LET IsHex(ch) == \E i \in 1..16 : HexUpper[i] = ch \/ HexLower[i] = ch IN
  /\ Len(roomId) = 36
  /\ \A i \in 1..36 :
       CASE i \in {9, 14, 19, 24} -> roomId[i] = "-"
         [] i = 15 -> roomId[i] = "4"
         [] i = 20 -> roomId[i] \in {"8", "9", "a", "b", "A", "B"}
         [] OTHER -> IsHex(roomId[i])

\* the room ids join is called with
RoomIds ==
  { <<"i","n","v","a","l","i","d">>,
    <<"1","2","3","e","4","5","6","7","-","e","8","9","b","-","4","2","d","3",
      "-","a","4","5","6","-","4","2","6","6","1","4","1","7","4","0","0","0">>,
    <<"1","2","3","e","4","5","6","7","-","e","8","9","b","-","1","2","d","3",
      "-","a","4","5","6","-","4","2","6","6","1","4","1","7","4","0","0","0">> }

PeerIds == {"peer-1", "peer-2"}

\* join(roomId, joinRoom); joinRoom returns a room or throws
RelayJoin(roomId, joinRoomThrows) ==
  IF ~validateRoomId(roomId) \/ joinRoomThrows
  THEN relay' = [relay EXCEPT !.state = ERROR]
  ELSE /\ relay.joined < MaxRooms
       /\ relay' = [relay EXCEPT !.state = CONNECTING,
                                 !.room = relay.joined + 1,
                                 !.joined = @ + 1,
                                 !.rooms = @ \cup {relay.joined + 1}]

\* leave()
RelayLeave ==
  relay' = IF relay.room # Null
           THEN [relay EXCEPT !.rooms = @ \ {relay.room},
                              !.room = Null,
                              !.peers = {},
                              !.state = DISCONNECTED]
           ELSE relay

\* the handler given to room.onPeerJoin, called by a room not left
RelayPeerJoin(peerId) ==
  /\ relay.rooms # {}
  /\ relay' = [relay EXCEPT !.peers = @ \cup {peerId},
                            !.state = CONNECTED]

\* the handler given to room.onPeerLeave, called by a room not left for a
\* peer that had joined
RelayPeerLeave(peerId) ==
  /\ relay.rooms # {}
  /\ peerId \in relay.peers
  /\ relay' = [relay EXCEPT !.peers = @ \ {peerId},
                            !.state = IF relay.peers = {peerId}
                                      THEN CONNECTING ELSE @]

RelayInit == OthersUnused("relay") /\ ConnectionManagerCreated

RelayNext ==
  \/ \E roomId \in RoomIds, joinRoomThrows \in BOOLEAN :
       RelayJoin(roomId, joinRoomThrows) /\ UNCHANGED NotRelayVars
  \/ RelayLeave /\ UNCHANGED NotRelayVars
  \/ \E peerId \in PeerIds : RelayPeerJoin(peerId) /\ UNCHANGED NotRelayVars
  \/ \E peerId \in PeerIds : RelayPeerLeave(peerId) /\ UNCHANGED NotRelayVars

RelaySpec == RelayInit /\ [][RelayNext]_vars

\* ------------------------------------------------------------------------
\* The QR scanner: start, stop, and scanFrame on the frames of the video
\* ------------------------------------------------------------------------
\* what jsQR finds in a frame: no code, or a code with its data, which can
\* be the empty string
Frames == {NoQR} \cup {[qr |-> TRUE, data |-> d] : d \in {"", "A", "B"}}

\* start(video), up to its first await: the k-th call of start
start ==
  /\ \E k \in 1..MaxStarts :
       /\ scanner.starts[k] = "none"
       /\ \A j \in 1..(k - 1) : scanner.starts[j] # "none"
       /\ scanner' = IF isScanning
                     THEN [scanner EXCEPT !.starts[k] = "returned"]
                     ELSE [scanner EXCEPT !.state = STARTING,
                                          !.starts[k] = "camera"]
  /\ scanStep' = [op |-> "start", frame |-> NoQR, onScan |-> <<>>]
  /\ UNCHANGED <<isScanning, lastScannedData, reported, nFrames>>

\* start, call k: getUserMedia resolves with a stream; start goes on to
\* wait for the metadata of the video
StartCameraGranted(k) ==
  /\ scanner.starts[k] = "camera"
  /\ scanner' = [scanner EXCEPT !.videoStream = k,
                                !.videoElement = TRUE,
                                !.starts[k] = "metadata"]
  /\ scanStep' = [op |-> "camera", frame |-> NoQR, onScan |-> <<>>]
  /\ UNCHANGED <<isScanning, lastScannedData, reported, nFrames>>

\* start, call k: onloadedmetadata, then videoElement.play() resolves.  With
\* videoElement null the handler throws and the promise start waits for is
\* never settled.
StartMetadataLoaded(k) ==
  /\ scanner.starts[k] = "metadata"
  /\ IF scanner.videoElement
     THEN /\ isScanning' = TRUE
          /\ scanner' = [scanner EXCEPT !.state = SCANNING,
                                        !.starts[k] = "scanning"]
     ELSE /\ scanner' = [scanner EXCEPT !.starts[k] = "never"]
          /\ UNCHANGED isScanning
  /\ scanStep' = [op |-> "metadata", frame |-> NoQR, onScan |-> <<>>]
  /\ UNCHANGED <<lastScannedData, reported, nFrames>>

\* start, call k: getUserMedia, play() or the video element fails
StartFailed(k) ==
  /\ scanner.starts[k] \in {"camera", "metadata"}
  /\ scanner' = [scanner EXCEPT !.state = ERROR, !.starts[k] = "failed"]
  /\ scanStep' = [op |-> "start failed", frame |-> NoQR, onScan |-> <<>>]
  /\ UNCHANGED <<isScanning, lastScannedData, reported, nFrames>>

\* stop()
stop ==
  /\ isScanning' = FALSE
  /\ scanner' = [scanner EXCEPT !.videoStream = Null,
                                !.videoElement = FALSE,
                                !.state = STOPPED]
  /\ scanStep' = [op |-> "stop", frame |-> NoQR, onScan |-> <<>>]
  /\ UNCHANGED <<lastScannedData, reported, nFrames>>

\* scanFrame() when the video shows frame f; enoughData: videoElement
\* .readyState === HAVE_ENOUGH_DATA
scanFrame(f, enoughData) ==
  /\ nFrames < MaxFrames
  /\ nFrames' = nFrames + 1
  /\ UNCHANGED <<isScanning, scanner>>
  /\ IF ~isScanning \/ ~scanner.videoElement \/ ~enoughData
     THEN /\ scanStep' = [op |-> "no frame", frame |-> NoQR, onScan |-> <<>>]
          /\ UNCHANGED <<lastScannedData, reported>>
     ELSE LET found == f.qr /\ f.data # ""
              called == found /\ lastScannedData # <<f.data>> IN
          /\ lastScannedData' = IF found THEN <<f.data>> ELSE <<>>
          /\ scanStep' = [op |-> "frame", frame |-> f,
                          onScan |-> IF called THEN <<f.data>> ELSE <<>>]
          /\ reported' = IF called THEN <<f.data>>
                         ELSE IF ~f.qr THEN <<>> ELSE reported

ScanInit ==
  /\ OthersUnused("scanner")
  /\ ScannerCreated

ScanNext ==
  \/ start /\ UNCHANGED NotScanVars
  \/ \E k \in 1..MaxStarts : StartCameraGranted(k) /\ UNCHANGED NotScanVars
  \/ \E k \in 1..MaxStarts : StartMetadataLoaded(k) /\ UNCHANGED NotScanVars
  \/ \E k \in 1..MaxStarts : StartFailed(k) /\ UNCHANGED NotScanVars
  \/ stop /\ UNCHANGED NotScanVars
  \/ \E f \in Frames, enoughData \in BOOLEAN :
       scanFrame(f, enoughData) /\ UNCHANGED NotScanVars

ScanSpec == ScanInit /\ [][ScanNext]_vars

\* ------------------------------------------------------------------------
\* Document storage: saveDocument, saveToHistory and getHistory over the
\* adapter, which keeps every value as its JSON text
\* ------------------------------------------------------------------------
\* `if (history.length > 10)`, `history.slice(-10)`
HistoryCap == 10

\* document states an application saves: a text, with or without a version
\* (version <<>>: the state has no version property)
States ==
  { [text |-> <<"a">>, version |-> <<>>],
    [text |-> <<"b">>, version |-> <<2>>] }

\* JSON.stringify of a natural number
RECURSIVE Decimal(_)
Decimal(n) ==
  LET digits == <<"0", "1", "2", "3", "4", "5", "6", "7", "8", "9">> IN
  IF n < 10 THEN <<digits[n + 1]>>
  ELSE Decimal(n \div 10) \o <<digits[(n % 10) + 1]>>

\* JSON.stringify of a document state: {"text":"..."} or
\* {"text":"...","version":n}
StringifyState(st) ==
  <<"{">> \o JsonString(<<"t", "e", "x", "t">>) \o <<":">>
  \o JsonString(st.text)
  \o (IF st.version = <<>> THEN <<>>
      ELSE <<",">> \o JsonString(<<"v", "e", "r", "s", "i", "o", "n">>)
           \o <<":">> \o Decimal(st.version[1]))
  \o <<"}">>

\* adapter.set: JSON.stringify of the array of history entries
\* { state, timestamp, version }
StringifyHistory(h) ==
  LET Entry(e) ==
        <<"{">> \o JsonString(<<"s", "t", "a", "t", "e">>) \o <<":">>
        \o StringifyState(e.state)
        \o <<",">> \o JsonString(<<"t", "i", "m", "e", "s", "t", "a", "m", "p">>)
        \o <<":">> \o Decimal(e.timestamp)
        \o <<",">> \o JsonString(<<"v", "e", "r", "s", "i", "o", "n">>)
        \o <<":">> \o Decimal(e.version)
        \o <<"}">>
      RECURSIVE Entries(_)
      Entries(i) ==
        IF i > Len(h) THEN <<>>
        ELSE (IF i > 1 THEN <<",">> ELSE <<>>) \o Entry(h[i]) \o Entries(i + 1)
  IN  <<"[">> \o Entries(1) \o <<"]">>

\* adapter.set: JSON.stringify of docData { id, state, savedAt, version }
StringifyDocData(d) ==
  <<"{">> \o JsonString(<<"i", "d">>) \o <<":">> \o JsonString(d.id)
  \o <<",">> \o JsonString(<<"s", "t", "a", "t", "e">>) \o <<":">>
  \o StringifyState(d.state)
  \o <<",">> \o JsonString(<<"s", "a", "v", "e", "d", "A", "t">>) \o <<":">>
  \o Decimal(d.savedAt)
  \o <<",">> \o JsonString(<<"v", "e", "r", "s", "i", "o", "n">>) \o <<":">>
  \o Decimal(d.version)
  \o <<"}">>

\* adapter.get: JSON.parse of a text that adapter.set wrote for a history.
\* Each reader starts at a position of the text and returns the value with
\* the position after it.
ParseHistory(s) ==
  LET RECURSIVE NumberEnd(_)
      NumberEnd(i) ==
        IF i <= Len(s) /\ IsDigit(s[i]) THEN NumberEnd(i + 1) ELSE i
      DigitValue(ch) ==
        CHOOSE d \in 0..9 : Decimal(d) = <<ch>>
      RECURSIVE NumberValue(_, _)
      NumberValue(i, j) ==
        IF j <= i THEN 0
        ELSE 10 * NumberValue(i, j - 1) + DigitValue(s[j - 1])
      ReadNumber(i) ==
        LET j == NumberEnd(i) IN [v |-> NumberValue(i, j), next |-> j]
      \* the closing quote of a string, from position i inside it
      RECURSIVE StringEnd(_)
      StringEnd(i) == IF s[i] = "\"" THEN i ELSE StringEnd(i + 1)
      \* a string whose opening quote is at position i
      ReadString(i) ==
        LET j == StringEnd(i + 1)
        IN  [v |-> SubSeq(s, i + 1, j - 1), next |-> j + 1]
      \* "key": at position i, the position of the value
      AfterKey(i) == ReadString(i).next + 1
      \* {"text":"...","version":n} or {"text":"..."} at position i
      ReadState(i) ==
        LET text == ReadString(AfterKey(i + 1)) IN
        IF s[text.next] = ","
        THEN LET version == ReadNumber(AfterKey(text.next + 1))
             IN  [v |-> [text |-> text.v, version |-> <<version.v>>],
                  next |-> version.next + 1]
        ELSE [v |-> [text |-> text.v, version |-> <<>>],
              next |-> text.next + 1]
      \* {"state":...,"timestamp":n,"version":n} at position i
      ReadEntry(i) ==
        LET st == ReadState(AfterKey(i + 1))
            timestamp == ReadNumber(AfterKey(st.next + 1))
            version == ReadNumber(AfterKey(timestamp.next + 1))
        IN  [v |-> [state |-> st.v, timestamp |-> timestamp.v,
                    version |-> version.v],
             next |-> version.next + 1]
      \* the entries of the array from position i, after "[" or ","
      RECURSIVE ReadEntries(_)
      ReadEntries(i) ==
        IF s[i] = "]" THEN <<>>
        ELSE LET e == ReadEntry(i)
             IN  <<e.v>> \o ReadEntries(IF s[e.next] = "," THEN e.next + 1
                                        ELSE e.next)
  IN  ReadEntries(2)

\* saveToHistory that keeps the first ten entries: history.slice(0, 10)
saveToHistory_KeepOldest(item, st, time) ==
  LET stored == IF item = <<>> THEN <<>> ELSE ParseHistory(item)
      pushed == stored \o
                  <<[state |-> st, timestamp |-> time,
                     version |-> IF st.version = <<>> THEN 0
                                 ELSE st.version[1]]>>
  IN  StringifyHistory(SubSeq(pushed, 1, Min(Len(pushed), HistoryCap)))

\* saveToHistory(docId, state) at time time: the item it stores under the
\* history key, given the item that is there (<<>>: none, and
\* `adapter.get(historyKey) || []` is the empty array)
saveToHistory(item, st, time) ==
  LET stored == IF item = <<>> THEN <<>> ELSE ParseHistory(item)
      \* history.push({ state, timestamp: Date.now(),
      \*                version: state.version || 0 })
      pushed == stored \o
                  <<[state |-> st, timestamp |-> time,
                     version |-> IF st.version = <<>> THEN 0
                                 ELSE st.version[1]]>>
  IN  \* if (history.length > 10) history = history.slice(-10)
      StringifyHistory(IF Len(pushed) > HistoryCap
                       THEN SubSeq(pushed, Len(pushed) - HistoryCap + 1,
                                   Len(pushed))
                       ELSE pushed)

\* saveDocument(docId, state); Date.now() is the number of the save
saveDocument(st) ==
  /\ Len(saved) < MaxSaves
  /\ LET time == Len(saved) + 1 IN
     /\ historyItem' = saveToHistory(historyItem, st, time)
     /\ documentItem' =
          StringifyDocData([id |-> <<"d">>, state |-> st, savedAt |-> time,
                            version |-> IF st.version = <<>> THEN 0
                                        ELSE st.version[1]])
  /\ saved' = Append(saved, st)
  /\ storeStep' = "saveDocument"
  /\ UNCHANGED history

\* getHistory(docId): adapter.get(historyKey) || []
getHistory ==
  /\ history' = IF historyItem = <<>> THEN <<>> ELSE ParseHistory(historyItem)
  /\ storeStep' = "getHistory"
  /\ UNCHANGED <<documentItem, historyItem, saved>>

StoreInit ==
  /\ OthersUnused("storage")
  /\ StorageCreated

StoreNext ==
  \/ \E st \in States : saveDocument(st) /\ UNCHANGED NotStoreVars
  \/ getHistory /\ UNCHANGED NotStoreVars

StoreSpec == StoreInit /\ [][StoreNext]_vars

\* ------------------------------------------------------------------------
\* Properties of the codec
\* ------------------------------------------------------------------------
\* the document has the three lines compressSignaling looks for
DocComplete(doc) == doc.style \notin {"noUfrag", "noPwd", "noFingerprint"}

\* a network path: an IPv4 address, a port and one of the three kinds
IsPath(c) == c.shape = "ipv4" /\ c.typ \in {W_host, W_srflx, W_relay}

PathOf(c) == [ip |-> c.ip, port |-> c.port, typ |-> c.typ]

PathsOf(cands) == [i \in 1..Len(cands) |-> PathOf(cands[i])]

\* C1: for every document that has role, username, secret and fingerprint,
\* and every list of at most 5 paths, compressSignaling succeeds and
\* decompressSignaling of its token yields a document with the same role,
\* username, secret and fingerprint, and exactly the input paths (address,
\* port, kind) in their original order.
C1_RoundTrip ==
  (/\ cstep \in {"compressed", "failed", "decompressed"}
   /\ DocComplete(cdoc)
   /\ Len(cpaths) <= CandidateCap
   /\ \A i \in 1..Len(cpaths) : IsPath(cpaths[i]))
  => /\ ctoken.ok
     /\ cstep = "decompressed" =>
          /\ cout.ok
          /\ cout.description.type = cdoc.type
          /\ MatchText(cout.description.sdp, KeyUfrag) = cdoc.ufrag
          /\ MatchText(cout.description.sdp, KeyPwd) = cdoc.pwd
          /\ FingerprintDigest(MatchText(cout.description.sdp, KeyFingerprint))
               = cdoc.digest
          /\ PathsOf(cout.candidates) = PathsOf(cpaths)

\* C1 witness: a document with blanks after its values and five paths of all
\* three kinds went through compressSignaling and decompressSignaling
C1_Witness ==
  /\ cstep = "decompressed"
  /\ cdoc.style = "padded"
  /\ Len(cpaths) = CandidateCap
  /\ \A i \in 1..Len(cpaths) : IsPath(cpaths[i])
  /\ {cpaths[i].typ : i \in 1..Len(cpaths)} = {W_host, W_srflx, W_relay}

\* C17: for every document with the three fields and every list of more
\* than 5 paths, compressSignaling raises nothing and returns a token, and
\* decompressSignaling of that token raises nothing and yields exactly 5
\* paths: the first 5 of the input, in input order.
C17_FirstFivePaths ==
  (/\ cstep \in {"compressed", "failed", "decompressed"}
   /\ DocComplete(cdoc)
   /\ Len(cpaths) > CandidateCap
   /\ \A i \in 1..Len(cpaths) : IsPath(cpaths[i]))
  => /\ ctoken.ok /\ ctoken.error = ""
     /\ Len(ctoken.token.c) = CandidateCap
     /\ cstep = "decompressed" =>
          /\ cout.ok /\ cout.error = ""
          /\ Len(cout.candidates) = CandidateCap
          /\ PathsOf(cout.candidates) = PathsOf(SubSeq(cpaths, 1, CandidateCap))

\* C17 witness: six paths, the sixth unlike the fifth, went through
\* compressSignaling and decompressSignaling
C17_Witness ==
  /\ cstep = "decompressed"
  /\ DocComplete(cdoc)
  /\ Len(cpaths) = CandidateCap + 1
  /\ \A i \in 1..Len(cpaths) : IsPath(cpaths[i])
  /\ cpaths[CandidateCap + 1] # cpaths[CandidateCap]
  /\ Len(cout.candidates) = CandidateCap

\* C18: compressSignaling raises 'Could not extract required SDP fields' and
\* returns no token when the document lacks the username, the secret or the
\* fingerprint, and raises nothing and returns a token when it has all
\* three, whatever the candidate list.
C18_MissingFieldRejected ==
  cstep \in {"compressed", "failed", "decompressed"} =>
    IF DocComplete(cdoc)
    THEN /\ ctoken.ok /\ ctoken.error = ""
         /\ ctoken.token.wellFormed
         /\ cstep # "failed"
    ELSE /\ ~ctoken.ok
         /\ ctoken.error = "Could not extract required SDP fields"
         /\ ctoken.token = NoToken
         /\ cstep = "failed"

\* C18 witness: compressSignaling was given a document without fingerprint
\* and some paths, and failed
C18_Witness ==
  /\ cstep = "failed"
  /\ cdoc.style = "noFingerprint"
  /\ Len(cpaths) > 0
  /\ ~ctoken.ok

\* C19: decompressSignaling raises an error, and returns no document, for
\* every token that is not base64 of a record and for every record that
\* lacks the role tag, the username, the secret or the fingerprint.
C19_IncompleteTokenRejected ==
  (/\ cstep = "token decompressed"
   /\ \/ ~ctoken.token.wellFormed
      \/ ~({"t", "u", "p", "f"} \subseteq ctoken.token.has))
  => /\ ~cout.ok
     /\ cout.error # ""
     /\ cout.description = NoDescription

\* ------------------------------------------------------------------------
\* Properties of the controller
\* ------------------------------------------------------------------------
\* the engine reported the path of the current handle usable
PathUsable ==
  /\ pc # 0
  /\ iceConnectionState \in {"connected", "completed"} \/ connectionState = "connected"

\* call k is in the wait of createOffer / createAnswer
Waiting(k) == calls[k].kind \in {"offer", "answer"} /\ calls[k].at = "wait"

\* C2: the state becomes Connected only in a step after which both the path
\* is usable and the channel is open; one signal alone never makes it
\* Connected.
C2_ConnectedNeedsBoth ==
  [][(state # CONNECTED /\ state' = CONNECTED) => (PathUsable' /\ ChannelIsOpen')]_vars

\* C3: createOffer() as the first call moves the state to Offering when it
\* reaches its wait, and the state is never Connected unless acceptAnswer()
\* was called after the createOffer().
C3_OfferNeedsAccept ==
  [][calls'[1].kind = "offer" =>
       /\ (calls[1].at = "setLocal" /\ calls'[1].at # "setLocal") => state' = OFFERING
       /\ state' = CONNECTED => \E k \in CallIds : calls'[k].kind = "accept"]_vars

\* C4: after close(), and until createOffer() or createAnswer() is called
\* again, no callback of the engine or of a channel changes the state.
C4_NoLateCallback ==
  [][(closed /\ lastOp' = "callback") => state' = state]_vars

\* the offer/answer flow of one controller ran to its end: createOffer()
\* resolved and acceptAnswer() resolved, or createAnswer() resolved; no other
\* handle was created and close() was not called
FlowDone ==
  /\ pc = 1 /\ pcClosed = {} /\ ~closed
  /\ calls[1].at = "resolved"
  /\ \A k \in CallIds \ {1} : calls[k].kind \in {"none", "accept"}
  /\ calls[1].kind = "offer" =>
       \E k \in CallIds : calls[k].kind = "accept" /\ calls[k].at = "resolved"

\* neither signal has degraded: no channel was closed, nothing failed
NotDegraded ==
  /\ \A c \in ChannelIds : readyState[c] \in {"none", "connecting", "open"}
  /\ iceConnectionState \notin {"failed", "disconnected"}
  /\ connectionState # "failed"

\* C5: once the flow of a controller is done, the engine has reported the
\* path usable and the channel is open, and neither has degraded, the state
\* is Connected, whenever the two signals arrived.
C5_BothSignalsConnected ==
  (FlowDone /\ PathUsable /\ ChannelIsOpen /\ NotDegraded) => state = CONNECTED

\* C6: a call does not stay in its wait once 3 local candidates have been
\* accumulated on its handle.
C6_ThresholdResolves ==
  \A k \in CallIds : (Waiting(k) /\ pc = k) => Len(localCandidates) < EnoughCandidates

\* call k is the only createOffer() / createAnswer() made on the controller
SoleLifecycle(k) == \A j \in CallIds \ {k} : calls[j].kind \in {"none", "accept"}

\* C7: a createOffer() waiting on the handle the controller holds, with
\* discovery not complete and fewer than 3 candidates, has its timer pending,
\* and when the timer fires the call resolves with the token of the offer and
\* of the candidates accumulated by then.
C7_TimeoutResolves ==
  [][/\ \A k \in CallIds :
          (calls'[k].kind = "offer" /\ Waiting(k)' /\ SoleLifecycle(k)' /\ pc' = k)
          => k \in armed'
     /\ \A k \in CallIds :
          (/\ calls[k].kind = "offer" /\ Waiting(k) /\ SoleLifecycle(k) /\ pc = k
           /\ iceGatheringState # "complete"
           /\ Len(localCandidates) < EnoughCandidates
           /\ lastOp' = "timeout" /\ k \in armed /\ k \notin armed')
          => /\ calls'[k].at = "resolved"
             /\ calls'[k].result
                  = compressSignaling(RenderSdp(EngineDoc("offer")), localCandidates).token
             /\ PathsOf(decompressSignaling(calls'[k].result).candidates)
                  = PathsOf(localCandidates)]_vars

\* C7 witness: createOffer() was resolved by its timer, with two candidates
\* accumulated and discovery not complete
C7_Witness ==
  /\ lastOp = "timeout" /\ pc = 1 /\ SoleLifecycle(1)
  /\ calls[1].kind = "offer" /\ calls[1].at = "resolved"
  /\ iceGatheringState # "complete"
  /\ Len(localCandidates) = 2
  /\ Len(calls[1].result.c) = 2

\* C8: a call in its wait can still settle: its timer is pending, or a handle
\* the engine still serves has its checkCandidates as handler.  (Nothing else
\* settles a waiting call, and neither comes back once gone.)
C8_WaitCanSettle ==
  \A k \in CallIds :
    Waiting(k) => (k \in armed \/ \E h \in LiveHandles : gatherHandler[h] = k)

\* C9: close() leaves the state Disconnected, no channel, no engine handle,
\* no accumulated candidate and no pending timer.
C9_CloseReleasesAll ==
  lastOp \in CloseOps =>
    /\ state = DISCONNECTED
    /\ dataChannel = 0
    /\ pc = 0
    /\ localCandidates = <<>>
    /\ armed = {}

\* C10: close() directly after close() raises nothing, leaves the state
\* Disconnected and every field, timer and channel as it was, and notifies
\* no state change.
C10_SecondCloseNoop ==
  [][(lastOp \in CloseOps /\ lastOp' = "close again") =>
       /\ thrown' = "" /\ errorCb' = ""
       /\ state' = DISCONNECTED
       /\ notified' = <<>>
       /\ UNCHANGED <<ctrlVars, engineVars, armed, calls>>]_vars

\* C10 witness: close() was called twice in a row on a controller whose
\* createOffer() was waiting
C10_Witness ==
  /\ lastOp = "close again"
  /\ calls[1].kind = "offer" /\ calls[1].at = "wait"
  /\ state = DISCONNECTED /\ pc = 0

\* C11: once the state is Failed it stays Failed under every callback and
\* every API call other than close().
C11_FailedIsTerminal ==
  [][(state = FAILED /\ lastOp' \notin CloseOps) => state' = FAILED]_vars

\* C12: when the engine reports the path of the handle the controller holds
\* as failed (ICE state or connection state), the state becomes Failed, the
\* error callback is invoked with an error, and nothing is thrown.
C12_PathFailedReported ==
  [][(/\ lastOp' = "callback" /\ pc # 0
      /\ \/ iceConnectionState # "failed" /\ iceConnectionState' = "failed"
         \/ connectionState # "failed" /\ connectionState' = "failed")
     => /\ state' = FAILED
        /\ errorCb' \in {"ICE connection failed", "Connection failed"}
        /\ thrown' = ""]_vars

\* C12 witness: the engine reported the ICE state failed on a controller
\* waiting in createOffer(), which is now Failed with the error reported
C12_Witness ==
  /\ lastOp = "callback" /\ pc = 1 /\ iceConnectionState = "failed"
  /\ calls[1].kind = "offer" /\ calls[1].at = "wait"
  /\ state = FAILED /\ notified = <<FAILED>>
  /\ errorCb = "ICE connection failed" /\ thrown = ""

\* no channel of the controller has been open so far, so the controller has
\* never been Connected
NoChannelEverOpen == \A c \in ChannelIds : readyState[c] \in {"none", "connecting"}

\* C13: no callback of the engine or of a channel moves a controller that was
\* never Connected from Idle, Offering, Answering or Connecting to
\* Disconnected.
C13_NoDisconnectBeforeConnected ==
  [][(/\ lastOp' = "callback"
      /\ NoChannelEverOpen
      /\ state \in {IDLE, OFFERING, ANSWERING, CONNECTING})
     => state' # DISCONNECTED]_vars

\* C14: acceptAnswer() on a controller on which neither createOffer() nor
\* createAnswer() was called rejects with 'No peer connection - call
\* createOffer first' for every token, creates no handle, changes no state
\* (Idle unless close() was called) and notifies nothing.
C14_AcceptWithoutOffer ==
  [][(lastOp' = "acceptAnswer" /\ Handles = {}) =>
       /\ calls'[NextCall].kind = "accept"
       /\ calls'[NextCall].at = "rejected"
       /\ calls'[NextCall].error = "No peer connection - call createOffer first"
       /\ thrown' = "No peer connection - call createOffer first"
       /\ state' = state /\ (~closed => state' = IDLE)
       /\ notified' = <<>>
       /\ pc' = 0 /\ Handles' = {} /\ nChannels' = 0]_vars

\* C14 witness: acceptAnswer() with a valid answer token was the first call
\* on a controller and was rejected
C14_Witness ==
  /\ lastOp = "acceptAnswer" /\ nInputs = 1
  /\ calls[1].kind = "accept" /\ calls[1].tok = "peerAnswer"
  /\ calls[1].at = "rejected"
  /\ state = IDLE /\ pc = 0

\* C15: acceptAnswer() on a controller whose current handle was not created
\* by createOffer() (it ran createAnswer(), or it was closed) rejects with 'No
\* peer connection - call createOffer first' and hands nothing to the engine.
C15_AcceptOnlyAfterOffer ==
  [][(lastOp' = "acceptAnswer" /\ (pc = 0 \/ calls[pc].kind # "offer")) =>
       /\ calls'[NextCall].at = "rejected"
       /\ calls'[NextCall].error = "No peer connection - call createOffer first"]_vars

\* C16: send(message) raises 'Data channel not open' and hands nothing to a
\* channel when the controller has no channel or its channel is not open;
\* when the channel is open it raises nothing and hands one piece of data,
\* the text of the message, to that channel.
C16_SendNeedsOpenChannel ==
  [][lastOp' = "send" =>
       IF dataChannel = 0 \/ readyState[dataChannel] # "open"
       THEN thrown' = "Data channel not open" /\ handed' = <<>>
       ELSE /\ thrown' = ""
            /\ Len(handed') = 1
            /\ handed'[1].channel = dataChannel
            /\ handed'[1].data \in {<<"h","i">>,
                                    <<"{","\"","t","y","p","e","\"",":","\"","o","k","\"","}">>}]_vars

\* C16 witness: an object was sent on an open channel and its JSON text was
\* handed to the channel
C16_Witness ==
  /\ lastOp = "send" /\ thrown = ""
  /\ dataChannel # 0 /\ readyState[dataChannel] = "open"
  /\ Len(handed) = 1 /\ Head(handed[1].data) = "{"

\* createAnswer(validOfferToken) is the only call that has been made on the
\* controller and the engine has made no callback: what has happened since
\* is the call's own continuations and its timer
AnsweringUndisturbed ==
  /\ calls[1].kind = "answer" /\ calls[1].tok = "peerOffer"
  /\ nInputs = 1

\* C20: createAnswer(validOfferToken) on an Idle controller notifies
\* Answering at once; while nothing else is called and the engine makes no
\* callback, the only further notification is Connecting, made from
\* Answering when the answer has been set as local description; the call is
\* never rejected, its timer is pending while it waits, it resolves with an
\* answer token, and from the notification on the state is Connecting.
C20_AnswerThenConnecting ==
  [][/\ (lastOp' = "createAnswer" /\ state = IDLE /\ AnsweringUndisturbed')
        => /\ notified' = <<ANSWERING>> /\ state' = ANSWERING
           /\ thrown' = "" /\ errorCb' = ""
           /\ calls'[1].at = "setRemote"
     /\ (lastOp' \in {"resume", "timeout"} /\ AnsweringUndisturbed')
        => /\ notified' \in {<<>>, <<CONNECTING>>}
           /\ notified' = <<CONNECTING>>
                => state = ANSWERING /\ calls[1].at = "setLocal"
           /\ errorCb' = ""
           /\ calls'[1].at # "rejected"
           /\ calls'[1].at \in {"wait", "resolved"} <=> state' = CONNECTING
           /\ calls'[1].at \notin {"wait", "resolved"} <=> state' = ANSWERING
           /\ calls'[1].at = "wait" => 1 \in armed'
           /\ calls'[1].at = "resolved"
                => /\ calls'[1].result.wellFormed /\ calls'[1].result.t = "a"
                   /\ decompressSignaling(calls'[1].result).ok
                   /\ decompressSignaling(calls'[1].result).description.type = "answer"]_vars

\* C20 witness: createAnswer(validOfferToken) was called on the Idle
\* controller, no engine callback came, and its timer resolved it with an
\* answer token; the state is Connecting
C20_Witness ==
  /\ lastOp = "timeout" /\ AnsweringUndisturbed
  /\ calls[1].at = "resolved" /\ calls[1].result.t = "a"
  /\ state = CONNECTING /\ notified = <<>>

\* C21: createAnswer(token) with a token that decompressSignaling fails on
\* is rejected, in the step of the call, with the error decompression
\* raised; the call never gets to pc.setRemoteDescription or
\* pc.addIceCandidate, then or later.
C21_BadTokenRejected ==
  [][\A k \in CallIds :
       (calls'[k].kind = "answer" /\ ~Decoded(calls'[k].tok).ok)
       => /\ calls'[k].at = "rejected"
          /\ calls'[k].error \in {"SyntaxError", "InvalidCharacterError"}
          /\ calls'[k].error = Decoded(calls'[k].tok).error
          /\ calls'[k].i = 0
          /\ calls[k].kind = "none" => thrown' = calls'[k].error]_vars

\* C21 witness: createAnswer() was called with base64 of a record without
\* fingerprint and was rejected
C21_Witness ==
  /\ lastOp = "createAnswer"
  /\ calls[1].kind = "answer" /\ calls[1].tok = "noFingerprint"
  /\ calls[1].at = "rejected" /\ calls[1].error = "InvalidCharacterError"
  /\ thrown = "InvalidCharacterError"

\* C22: when the engine rejects the addition of a decoded remote path in
\* createAnswer() or acceptAnswer() on a controller that holds a handle,
\* nothing is thrown, the call is not rejected and no error callback is
\* invoked; the call goes on exactly as after an accepted path: the next
\* decoded path in token order is handed to the engine, or, after the last
\* one, acceptAnswer() sets the state Connecting and resolves and
\* createAnswer() asks the engine for its answer.
C22_RefusedPathTolerated ==
  [][\A k \in CallIds :
       (/\ lastOp' = "refused" /\ pc # 0
        /\ calls[k].at = "addCand" /\ calls'[k] # calls[k])
       => /\ thrown' = "" /\ errorCb' = ""
          /\ calls'[k].at # "rejected" /\ calls'[k].error = ""
          /\ IF calls[k].i < Len(Decoded(calls[k].tok).candidates)
             THEN /\ calls'[k].at = "addCand" /\ calls'[k].i = calls[k].i + 1
                  /\ state' = state /\ notified' = <<>>
             ELSE IF calls[k].kind = "accept"
             THEN calls'[k].at = "resolved" /\ state' = CONNECTING
             ELSE calls'[k].at = "create" /\ state' = state]_vars

\* C22 witness: the engine rejected the last path of the peer's answer and
\* acceptAnswer() resolved, notifying Connecting
C22_Witness ==
  /\ lastOp = "refused"
  /\ \E k \in CallIds :
       /\ calls[k].kind = "accept" /\ calls[k].tok = "peerAnswer"
       /\ calls[k].at = "resolved"
  /\ state = CONNECTING /\ notified = <<CONNECTING>>
  /\ errorCb = "" /\ thrown = ""

\* C23: at most one engine handle created by the controller is open (created
\* and not closed) at any time.
C23_OneOpenHandle == Cardinality(LiveHandles) <= 1

\* C24: once close() has returned, no timer callback started by an earlier
\* createOffer() or createAnswer() runs.
C24_NoTimerAfterClose == [][lastOp' = "timeout" => ~closed]_vars

\* C25: the value given to the peer's onMessage equals the message given to
\* send(): a string arrives as the same string, an object as an equal
\* object.
C25_MessageRoundTrip == mstep = "delivered" => delivered = msg

\* syncManager.getText()
getText(who) == apps[who].documentState.text

\* C26: when the room has delivered everything that was broadcast, and the
\* host accepted a token through onLLMToken while streaming and after the
\* client joined, the client's getText() equals the host's getText().
\* (Nothing changes the client's text but a delivery, so this is what
\* "eventually equal" requires of such a state.)
C26_ClientReflectsTokens ==
  (/\ channel["client"] = <<>> /\ channel["host"] = <<>>
   /\ apps["host"].joinedTokens > 0)
  => getText("client") = getText("host")

\* the remote value is an object whose version is greater than the local
\* one, or equal with a greater lastUpdated
RemoteIsNewer ==
  /\ mergeRemote.kind = "object" /\ "version" \in mergeRemote.has
  /\ \/ mergeRemote.version > mergeLocal.version
     \/ /\ mergeRemote.version = mergeLocal.version
        /\ "lastUpdated" \in mergeRemote.has
        /\ mergeRemote.lastUpdated > mergeLocal.lastUpdated

\* C27: merge(remote) leaves remote as the document state, and notifies,
\* exactly when remote is an object whose version is greater than the local
\* version, or equal with a lastUpdated greater than the local one; in every
\* other case, null and non-object remote included, the document state is
\* as before and nothing is notified.
C27_MergeTakesNewer ==
  mergeStep = "merged" =>
    IF RemoteIsNewer
    THEN mergeResult.documentState = mergeRemote /\ mergeResult.notified
    ELSE mergeResult.documentState = mergeLocal /\ ~mergeResult.notified

\* C27 witness: the remote state had the local version and a later
\* lastUpdated, and replaced the local state
C27_Witness ==
  /\ mergeStep = "merged"
  /\ mergeRemote.kind = "object" /\ mergeRemote.has = {"text", "version", "lastUpdated"}
  /\ mergeRemote.version = mergeLocal.version
  /\ mergeLocal.lastUpdated # Null
  /\ mergeRemote.lastUpdated > mergeLocal.lastUpdated
  /\ mergeResult.documentState = mergeRemote /\ mergeResult.notified
  /\ mergeResult.documentState # mergeLocal

\* C28: onScan is called for a processed frame, with the frame's data,
\* exactly when the frame contains a QR code whose data differs from the
\* data last reported, a processed frame without QR code having reset the
\* comparison.
C28_ScanReportsNewCode ==
  [][scanStep'.op = "frame" =>
       IF scanStep'.frame.qr /\ <<scanStep'.frame.data>> # reported
       THEN scanStep'.onScan = <<scanStep'.frame.data>>
       ELSE scanStep'.onScan = <<>>]_vars

\* C29: after any sequence of saveDocument calls on the document, getHistory
\* returns at most ten entries, and they hold exactly the most recent
\* min(n, 10) saved states, in the order they were saved.
C29_HistoryKeepsLastTen ==
  storeStep = "getHistory" =>
    LET n == Len(saved) IN
    /\ Len(history) <= HistoryCap
    /\ Len(history) = Min(n, HistoryCap)
    /\ \A i \in 1..Len(history) :
         history[i].state = saved[n - Len(history) + i]

\* getHistory after more than ten saves, the dropped and the kept states
\* differing
C29_Witness ==
  /\ storeStep = "getHistory"
  /\ Len(saved) > HistoryCap
  /\ Len(history) = HistoryCap
  /\ saved[1] # saved[Len(saved)]
  /\ saved[1] # saved[Len(saved) - HistoryCap + 1]

\* C30: acceptAnswer(validAnswerToken) on a controller in Offering that
\* holds its handle gives the decoded description to
\* pc.setRemoteDescription in the step of the call, without setting a
\* state; while the controller keeps its handle, each
\* later step of the call gives the next decoded candidate, in token order,
\* to pc.addIceCandidate and sets no state, until the step after the last
\* candidate, which sets Connecting and resolves the call; no step of the
\* call notifies Connected.
C30_AcceptOrder ==
  [][\A k \in CallIds :
       LET n == Len(Decoded(calls'[k].tok).candidates) IN
       /\ (/\ calls[k].kind = "none" /\ calls'[k].kind = "accept"
           /\ state = OFFERING /\ Decoded(calls'[k].tok).ok /\ pc # 0)
          => /\ calls'[k].at = "setRemote" /\ calls'[k].i = 0
             /\ state' = OFFERING /\ notified' = <<>>
             /\ thrown' = "" /\ errorCb' = ""
       /\ (calls[k].kind = "accept" /\ calls'[k] # calls[k] /\ pc # 0)
          => /\ calls[k].at = IF calls[k].i = 0 THEN "setRemote" ELSE "addCand"
             /\ notified' \in {<<>>, <<CONNECTING>>}
             /\ IF calls[k].i < n
                THEN /\ calls'[k].at = "addCand"
                     /\ calls'[k].i = calls[k].i + 1
                     /\ state' = state /\ notified' = <<>>
                ELSE /\ calls'[k].at = "resolved"
                     /\ state' = CONNECTING
                     /\ state # CONNECTING => notified' = <<CONNECTING>>]_vars

\* C30 witness: createOffer() and then acceptAnswer(peer's answer) were
\* called, nothing else came in, and the call resolved after its last
\* candidate, notifying Connecting
C30_Witness ==
  /\ lastOp = "resume" /\ nInputs = 2
  /\ calls[1].kind = "offer"
  /\ calls[2].kind = "accept" /\ calls[2].tok = "peerAnswer"
  /\ calls[2].at = "resolved"
  /\ Len(DecodedAnswer.candidates) >= 2
  /\ state = CONNECTING /\ notified = <<CONNECTING>>

\* an earlier acceptAnswer() of the controller was rejected because its
\* token did not decompress
RejectedBadAnswerBefore(k) ==
  \E j \in 1..(k - 1) :
    /\ calls[j].kind = "accept" /\ ~Decoded(calls[j].tok).ok
    /\ calls[j].at = "rejected"

\* C31: acceptAnswer(token) on a controller in Offering that holds its
\* handle, with a token that does not decompress, is rejected in the step
\* of the call with the error decompression raised; the state stays
\* Offering, nothing is notified and the call never gets to
\* pc.setRemoteDescription. A later acceptAnswer() with a valid token on
\* the controller, still holding its handle, is not rejected: it hands the
\* description and the candidates to the engine and ends by setting
\* Connecting.
C31_RetryAfterBadToken ==
  [][\A k \in CallIds :
       /\ (/\ calls[k].kind = "none" /\ calls'[k].kind = "accept"
           /\ ~Decoded(calls'[k].tok).ok /\ state = OFFERING /\ pc # 0)
          => /\ calls'[k].at = "rejected" /\ calls'[k].i = 0
             /\ calls'[k].error = Decoded(calls'[k].tok).error
             /\ calls'[k].error \in {"SyntaxError", "InvalidCharacterError"}
             /\ thrown' = calls'[k].error
             /\ state' = OFFERING /\ notified' = <<>> /\ errorCb' = ""
       /\ (calls[k].kind = "accept" /\ ~Decoded(calls[k].tok).ok)
          => calls'[k] = calls[k]
       /\ (/\ calls[k].kind = "none" /\ calls'[k].kind = "accept"
           /\ Decoded(calls'[k].tok).ok /\ pc # 0 /\ RejectedBadAnswerBefore(k))
          => calls'[k].at = "setRemote" /\ thrown' = ""
       /\ (/\ calls[k].kind = "accept" /\ calls'[k] # calls[k]
           /\ pc # 0 /\ RejectedBadAnswerBefore(k))
          => /\ thrown' = "" /\ errorCb' = ""
             /\ IF calls[k].i < Len(Decoded(calls[k].tok).candidates)
                THEN calls'[k].at = "addCand" /\ calls'[k].i = calls[k].i + 1
                ELSE calls'[k].at = "resolved" /\ state' = CONNECTING]_vars

\* C31 witness: createOffer(), then acceptAnswer() with a token that does
\* not decompress, rejected, then acceptAnswer(peer's answer), which
\* resolved and notified Connecting
C31_Witness ==
  /\ lastOp = "resume" /\ nInputs = 3
  /\ calls[1].kind = "offer"
  /\ calls[2].kind = "accept" /\ calls[2].tok = "garbage"
  /\ calls[2].at = "rejected" /\ calls[2].error = "SyntaxError"
  /\ calls[3].kind = "accept" /\ calls[3].tok = "peerAnswer"
  /\ calls[3].at = "resolved"
  /\ state = CONNECTING /\ notified = <<CONNECTING>>

\* the entries of a candidate list that hold an IPv4 address, a port and a
\* type, in input order
Parseable(cands) == SelectSeq(cands, IsPath)

\* C32: for every document with the three fields and every candidate list,
\* compressSignaling skips the entries that are null, have an empty
\* candidate string or hold no IPv4 address, port and type, and the token
\* holds the first 5 of the other entries, in input order, however many
\* skipped entries stand before or between them.
C32_SkippedEntriesNotCounted ==
  (cstep \in {"compressed", "failed", "decompressed"} /\ DocComplete(cdoc))
  => /\ ctoken.ok /\ ctoken.error = ""
     /\ Len(ctoken.token.c) = Min(CandidateCap, Len(Parseable(cpaths)))
     /\ cstep = "decompressed" =>
          /\ cout.ok
          /\ PathsOf(cout.candidates) =
               PathsOf(SubSeq(Parseable(cpaths), 1,
                              Min(CandidateCap, Len(Parseable(cpaths)))))

\* C32 witness: a list of a null entry and then six parseable entries, the
\* sixth unlike the fifth, went through compressSignaling and
\* decompressSignaling, which yielded five paths
C32_Witness ==
  /\ cstep = "decompressed"
  /\ Len(cpaths) = CandidateCap + 2
  /\ cpaths[1] = CandNull
  /\ \A i \in 2..Len(cpaths) : IsPath(cpaths[i])
  /\ cpaths[Len(cpaths)] # cpaths[Len(cpaths) - 1]
  /\ Len(cout.candidates) = CandidateCap

\* C33: a createAnswer() call on an Idle controller whose token does not
\* decompress leaves the controller as it was: the state is still Idle, no
\* state change was notified and no engine handle was created.
C33_FailedAnswerChangesNothing ==
  [][\A k \in CallIds :
       (/\ calls[k].kind = "none" /\ calls'[k].kind = "answer"
        /\ ~Decoded(calls'[k].tok).ok /\ state = IDLE)
       => /\ state' = IDLE /\ notified' = <<>>
          /\ pc' = pc /\ pcClosed' = pcClosed]_vars

\* C34: whenever isConnected() is true (the state is Connected), the
\* controller holds a channel handle whose readyState is open, so that
\* send() does not raise 'Data channel not open'.
C34_ConnectedHasOpenChannel ==
  state = CONNECTED => ChannelIsOpen

\* C35: an engine callback delivered after close(), while the controller
\* holds no handle, raises nothing.
C35_CallbackAfterCloseIsQuiet ==
  [][(lastOp' = "callback" /\ closed /\ pc = 0) => thrown' = ""]_vars

\* C36: in every step, callbacks.onStateChange is called once for each
\* change of the state and with the new value: the first notification
\* differs from the state before the step, each further one from the one
\* before it, the last one is the state after the step, and a step that
\* notifies nothing leaves the state as it was.
C36_NotifiedOncePerChange ==
  [][/\ notified' = <<>> => state' = state
     /\ notified' # <<>> =>
          /\ notified'[1] # state
          /\ notified'[Len(notified')] = state'
          /\ \A i \in 1..(Len(notified') - 1) : notified'[i + 1] # notified'[i]]_vars

\* C36 witness: close() on a closed controller called
\* setState(DISCONNECTED) in the state Disconnected, and nothing was
\* notified
C36_Witness ==
  /\ lastOp = "close again"
  /\ calls[1].kind = "answer"
  /\ state = DISCONNECTED /\ notified = <<>>

\* C37: two sync managers that have each applied a sequence of appendText
\* and setText calls and have then merged each other's state, in both
\* directions, hold the same text.
C37_MergeConverges ==
  Len(merged) = 2 => managers["a"].text = managers["b"].text

\* C38: in every reachable state of the relay connection manager, after any
\* sequence of join, leave and room peer-join and peer-leave callbacks, a
\* join rejected for an invalid room id included, the state is CONNECTED
\* exactly when the set of tracked peers is not empty.
C38_ConnectedIffPeers ==
  relay.state = CONNECTED <=> relay.peers # {}

\* C39: after stop() has returned the scanner stays inactive (isActive()
\* false, state STOPPED, no camera stream held) until start() is called
\* again, also when stop() was called while an earlier start() was still
\* waiting for camera access or for the metadata of the video.
C39_StoppedStaysStopped ==
  [][(/\ scanner.state = STOPPED /\ ~isScanning
      /\ scanner.videoStream = Null
      /\ scanStep'.op # "start")
     => /\ scanner'.state = STOPPED /\ ~isScanning'
        /\ scanner'.videoStream = Null]_vars

====
